---- MODULE Spec2Model ----
(***************************************************************************)
(* The bounded-concurrency pipeline of the EIS fitting service: the HTTP   *)
(* handlers (pkg/handlers/eis.go), the worker pool (pkg/worker/pool.go),   *)
(* the batch orchestrator, and the outcome of a fit as the processor       *)
(* (internal/processing) hands it back to the pool.                        *)
(***************************************************************************)
EXTENDS Integers, Sequences, FiniteSets, Bags, TLC

(***************************************************************************)
(* Bounds of the model.                                                    *)
(***************************************************************************)
Workers == 1
MaxBatches == 2
MaxSingles == 1
MaxSpectra == 2
MaxLen == 1

Batches == 1..MaxBatches
Singles == 1..MaxSingles
WorkerIds == 1..Workers

(***************************************************************************)
(* Queue capacities: worker.New makes jobs and results with 2*W slots and  *)
(* the webhook queue with 4*W slots.                                       *)
(***************************************************************************)
JobsCap == Workers * 2
ResultsCap == Workers * 2
WebhookCap == Workers * 4

(***************************************************************************)
(* Strings are sequences of one-character strings, so that emptiness and   *)
(* concatenation are what they are in the program.                         *)
(***************************************************************************)
HexDigit == <<"1", "2", "3", "4", "5", "6", "7", "8", "9", "a", "b", "c", "d", "e", "f">>
Unknown == <<"u", "n", "k", "n", "o", "w", "n">>

\* utils.GenerateID: hex of fresh random bytes, or "unknown" when the
\* entropy source fails.  (b, k) stands for the bytes drawn by this call.
GenerateID(randOK, b, k) ==
    IF randOK THEN <<HexDigit[b], HexDigit[k]>> ELSE Unknown

Digit == <<"0", "1", "2", "3", "4", "5", "6", "7", "8", "9">>

\* fmt.Sprintf("%03d", n) for 0 <= n < 1000.
Pad3(n) == <<Digit[((n \div 100) % 10) + 1], Digit[((n \div 10) % 10) + 1], Digit[(n % 10) + 1]>>

\* An id whose iteration is written without padding.
WebhookRequestIDUnpadded(requestID, iteration) ==
    requestID \o <<"_", "i", "t", "e", "r", "_">> \o <<Digit[(iteration % 10) + 1]>>

\* fmt.Sprintf("%s_iter_%03d", requestID, iteration)
WebhookRequestID(requestID, iteration) ==
    requestID \o <<"_", "i", "t", "e", "r", "_">> \o Pad3(iteration)

(***************************************************************************)
(* Inputs.  A spectrum carries its iteration, the lengths of its           *)
(* frequencies and impedance arrays, and whether the minimizer succeeds on *)
(* its data (the fit is a function of the data); a request carries the     *)
(* HTTP method, whether its body decodes as JSON, and the decoded body.    *)
(***************************************************************************)
Data(nfreq, nimp, fits) == [nfreq |-> nfreq, nimp |-> nimp, fits |-> fits]
GoodData == Data(2, 2, TRUE)
\* Good data, data the minimizer fails on, data of mismatched lengths, no data.
DataKinds == {GoodData, Data(2, 2, FALSE), Data(2, 1, FALSE), Data(0, 0, FALSE)}
BatchIDs == {<< >>, <<"b">>}
Methods == {"nelder-mead", "levenberg-marquardt", "gradient-descent", "lbfgs", "newton"}

Spectrum(it, data) == [iteration |-> it, data |-> data]
Spectra == {Spectrum(it, d) : it \in 0..MaxSpectra, d \in DataKinds}

SpectraSeqs(n) == [1..n -> Spectra]

BatchBody(id, spectra) == [method |-> "POST", json |-> TRUE, batch_id |-> id, spectra |-> spectra]

\* Requests that never reach the decoder or fail in it.
RefusedBatchRequests ==
    { [method |-> m, json |-> TRUE, batch_id |-> << >>, spectra |-> << >>] : m \in {"OPTIONS", "GET"} }
    \cup { [method |-> "POST", json |-> FALSE, batch_id |-> << >>, spectra |-> << >>] }

\* Every batch body of up to MaxSpectra spectra, the empty batch included.
BatchRequests ==
    RefusedBatchRequests
    \cup { BatchBody(id, sp) : id \in BatchIDs, sp \in UNION { SpectraSeqs(n) : n \in 0..MaxSpectra } }

\* Well-formed batches of good data whose iterations are 0..n-1 in order:
\* the shape the sending scripts produce.
OrderedBatch(n) == BatchBody(<<"b">>, [k \in 1..n |-> Spectrum(k - 1, GoodData)])

SingleRequests ==
    { [method |-> m, json |-> TRUE, data |-> Data(0, 0, FALSE)] : m \in {"OPTIONS", "GET"} }
    \cup { [method |-> "POST", json |-> FALSE, data |-> Data(0, 0, FALSE)] }
    \cup { [method |-> "POST", json |-> TRUE, data |-> d] : d \in DataKinds }

(***************************************************************************)
(* The outcome of a fit.  The numerical minimizers are library code: on    *)
(* given data a run either succeeds (minOK) or hands back an error.  An    *)
(* outcome is either a panic or a Result, of which the pipeline reads the  *)
(* Status.                                                                 *)
(***************************************************************************)
Panic == [panic |-> TRUE, status |-> ""]
Returned(status) == [panic |-> FALSE, status |-> status]

\* A goimpcore.Result: its Status, its Min ("finite", "+Inf", or the "0.0"
\* of a zero Result) and the length of its Params.
Result(status, min, nparams) == [panic |-> FALSE, status |-> status, min |-> min, nparams |-> nparams]

\* GetElements(strings.ToLower("R(QR)")) = r, qy, qn, r.
NumElements == 4

\* What the numerical minimizer does on the data: it converges, it returns
\* an error, or it panics (as the objective does on mismatched lengths).
Outcomes == {"ok", "error", "panic"}

Converged == Result("OK", "finite", NumElements)
Failed == Result("ERROR", "+Inf", 0)

\* baseNMSolve, baseLBFGSSolve, baseNewtonSolve: an ERROR result on the
\* minimizer's error; a panic of the minimizer is not recovered.
baseNMSolve(outcome) ==
    CASE outcome = "ok" -> Converged
      [] outcome = "error" -> Failed
      [] OTHER -> Panic

baseLBFGSSolve(outcome) ==
    CASE outcome = "ok" -> Converged
      [] outcome = "error" -> Failed
      [] OTHER -> Panic

baseNewtonSolve(outcome) ==
    CASE outcome = "ok" -> Converged
      [] outcome = "error" -> Failed
      [] OTHER -> Panic

\* baseLMSolve: the deferred recover swallows a panic and the function
\* returns the zero Result.
baseLMSolve(outcome) ==
    CASE outcome = "ok" -> Converged
      [] outcome = "error" -> Failed
      [] OTHER -> Result("", "0.0", 0)

\* baseGDSolve panics on the minimizer's error.
baseGDSolve(outcome) == IF outcome = "ok" THEN Converged ELSE Panic

\* The bestRes both smart modes start from: Result{Min: math.Inf(1)}.
NoBest == Result("", "+Inf", 0)

\* res.Min < bestRes.Min, against the initial bestRes.
Adopted(res) == IF res.min # "+Inf" THEN res ELSE NoBest

\* eisSolve: a failed baseNMSolve leaves bestRes unadopted (Inf < Inf is
\* false) and the next InitValues empty, so no later run succeeds and
\* bestRes.Params stays empty; scaleParams then panics on the length
\* mismatch with the element list.
eisSolve(outcome) ==
    LET res == baseNMSolve(outcome)
    IN  IF res.panic THEN Panic
        ELSE IF Adopted(res).nparams # NumElements THEN Panic
        ELSE Adopted(res)

\* lmSolve: baseLMSolve answers an error with an ERROR result, which is
\* never adopted, so the zero-status bestRes comes back.
lmSolve(outcome) == Adopted(baseLMSolve(outcome))

\* runSingleOptimizationMethod picks the solver's SmartMode from the method.
SmartModeOf(method) ==
    CASE method = "nelder-mead" -> "eis"
      [] method \in {"levenberg-marquardt", "lm"} -> "lm"
      [] method \in {"gradient-descent", "gd"} -> "gd"
      [] method = "lbfgs" -> "lbfgs"
      [] method = "newton" -> "newton"
      [] OTHER -> "eis"

Solve(smartMode, outcome) ==
    CASE smartMode = "eis" -> eisSolve(outcome)
      [] smartMode = "gd" -> baseGDSolve(outcome)
      [] smartMode = "lm" -> lmSolve(outcome)
      [] smartMode = "lbfgs" -> baseLBFGSSolve(outcome)
      [] smartMode = "newton" -> baseNewtonSolve(outcome)
      [] OTHER -> baseNMSolve(outcome)

runSingleOptimizationMethod(method, outcome) == Solve(SmartModeOf(method), outcome)

\* The minimizer's outcome on the data of a request.
OutcomeOn(data) == IF data.fits THEN "ok" ELSE "error"

\* EISProcessor.Process: [err |-> TRUE] for data it refuses, else the fit.
Process(data, method) ==
    IF data.nfreq = 0 \/ data.nimp = 0 \/ data.nfreq # data.nimp
    THEN [err |-> TRUE, out |-> Returned("")]
    ELSE [err |-> FALSE, out |-> runSingleOptimizationMethod(method, OutcomeOn(data))]

\* EISProcessor.ProcessorFunc: an error becomes a Result with status ERROR.
ProcessorFunc(data, method) ==
    LET r == Process(data, method)
    IN  IF r.err THEN Returned("ERROR") ELSE r.out

\* Server.processEISData, the processor of the HTTP handlers: it solves
\* without checking the lengths; ChiSq panics when they differ, and only
\* baseLMSolve recovers.
processEISData(data, method) ==
    IF data.nfreq # data.nimp
    THEN IF SmartModeOf(method) = "lm" THEN Returned("") ELSE Panic
    ELSE runSingleOptimizationMethod(method, OutcomeOn(data))

(***************************************************************************)
(* State.                                                                  *)
(***************************************************************************)
VARIABLES
    method,          \* config.OptimMethod, fixed at start-up
    jobs,            \* Pool.jobs
    results,         \* Pool.results
    webhookQueue,    \* Pool.webhookQueue
    shutdown,        \* Pool.shutdown is closed
    shutpc,          \* Pool.Shutdown: "none", "wait" (in wg.Wait), "returned"
    wpc,             \* worker: "select", "run", "send", "exited"
    wjob,            \* the job a worker holds (a sequence of at most one)
    wres,            \* the result a worker is sending (at most one)
    whpc,            \* webhookProcessor: "select", "exited"
    dispatched,      \* webhook items handed to sendWebhook goroutines
    sent,            \* how many of those goroutines have returned
    bpc,             \* batch request: "new", "refused", "submit", "collect", "save", "open", "flush", "done"
    breq,            \* the batch request as received
    bresp,           \* the HTTP response to it
    submitted,       \* the jobs processBatchAsync has submitted, in order
    resultsReceived, \* processBatchAsync's counter
    spectrumTimings, \* processBatchAsync's table
    received,        \* the results its loop dequeued, in order
    attempts,        \* the arguments of its QueueWebhook calls, in order
    spc,             \* single request: "new", "refused", "fit", "done"
    sreq,            \* the single request as received
    sresp,           \* the HTTP response to it
    sattempts,       \* the arguments of processAsync's QueueWebhook call
    csv,             \* lines of concurrent_timing_results.csv
    fileExists,      \* the file has been created
    writeHeader,     \* per batch: saveTimingResults found no file
    crashed,         \* "none", or the function whose panic ended the process
    call,            \* a call of a library function under study: [fn, arg]
    ret,             \* what the call returned (a sequence of at most one)
    bufferPool,      \* Pool.bufferPool: the BufferSets lying in the sync.Pool
    bufferSets,      \* the BufferSets made so far: their Real and Imag arrays
    pjpc,            \* processJob of a worker: "select", "process", "copy", "return", "send"
    pjjob,           \* the job it processes (at most one)
    buffers,         \* the BufferSet it borrowed (0 for none)
    pjres,           \* the WorkResult it built (at most one)
    bufJobs,         \* the jobs waiting for those workers
    emitted          \* the WorkResults they have sent, in order

poolVars == <<jobs, results, webhookQueue, shutdown, shutpc, wpc, wjob, wres, whpc, dispatched, sent>>
batchVars == <<bpc, breq, bresp, submitted, resultsReceived, spectrumTimings, received, attempts>>
singleVars == <<spc, sreq, sresp, sattempts>>
bufVars == <<bufferPool, bufferSets, pjpc, pjjob, buffers, pjres, bufJobs, emitted>>
libVars == <<call, ret, bufVars>>
fileVars == <<csv, fileExists, writeHeader>>
pipelineVars == <<method, poolVars, batchVars, singleVars, fileVars, crashed>>
vars == <<pipelineVars, libVars>>

NoRequest == [method |-> "", json |-> FALSE, batch_id |-> << >>, spectra |-> << >>]
NoSingle == [method |-> "", json |-> FALSE, data |-> Data(0, 0, FALSE)]
NoResponse == [code |-> 0, id |-> << >>]
NoCall == [fn |-> "none", arg |-> << >>]

\* The state after server.New, for a configuration whose OptimMethod is one
\* of methods.
InitWith(methods) ==
    /\ method \in methods
    /\ jobs = << >>
    /\ results = << >>
    /\ webhookQueue = << >>
    /\ shutdown = FALSE
    /\ shutpc = "none"
    /\ wpc = [w \in WorkerIds |-> "select"]
    /\ wjob = [w \in WorkerIds |-> << >>]
    /\ wres = [w \in WorkerIds |-> << >>]
    /\ whpc = "select"
    /\ dispatched = << >>
    /\ sent = 0
    /\ bpc = [b \in Batches |-> "new"]
    /\ breq = [b \in Batches |-> NoRequest]
    /\ bresp = [b \in Batches |-> NoResponse]
    /\ submitted = [b \in Batches |-> << >>]
    /\ resultsReceived = [b \in Batches |-> 0]
    /\ spectrumTimings = [b \in Batches |-> << >>]
    /\ received = [b \in Batches |-> << >>]
    /\ attempts = [b \in Batches |-> << >>]
    /\ spc = [s \in Singles |-> "new"]
    /\ sreq = [s \in Singles |-> NoSingle]
    /\ sresp = [s \in Singles |-> NoResponse]
    /\ sattempts = [s \in Singles |-> << >>]
    /\ csv = << >>
    /\ fileExists = FALSE
    /\ writeHeader = [b \in Batches |-> FALSE]
    /\ crashed = "none"

\* The workers of the buffer study and the BufferSets sync.Pool can hold
\* for them: Get may call New although a BufferSet lies in the pool.
BufferWorkers == 2
BufferWorkerIds == 1..BufferWorkers
MaxBuffers == BufferWorkers + 1
BufferIds == 1..MaxBuffers

\* No BufferSet is made yet; jobs are the jobs waiting.
BufferInitWith(jobsWaiting) ==
    /\ bufferPool = {}
    /\ bufferSets = << >>
    /\ pjpc = [w \in BufferWorkerIds |-> "select"]
    /\ pjjob = [w \in BufferWorkerIds |-> << >>]
    /\ buffers = [w \in BufferWorkerIds |-> 0]
    /\ pjres = [w \in BufferWorkerIds |-> << >>]
    /\ bufJobs = jobsWaiting
    /\ emitted = << >>

\* No library call is under study.
NoLibraryCall == call = NoCall /\ ret = << >> /\ BufferInitWith(<< >>)

\* config.DefaultConfig: OptimMethod is "nelder-mead".
Init == InitWith({"nelder-mead"}) /\ NoLibraryCall

\* Any -method flag.
AnyMethodInit == InitWith(Methods) /\ NoLibraryCall

\* The process runs until a goroutine panics or main's signal handler calls
\* os.Exit after Server.Shutdown has returned.
Alive == crashed = "none" /\ shutpc # "returned"

(***************************************************************************)
(* The pool's queue operations (pkg/worker/pool.go).                       *)
(***************************************************************************)
\* Pool.SubmitJob: both branches send on jobs; the send completes only
\* when the queue has room.
CanSubmitJob(q) == Len(q) < JobsCap
SubmitJob(q, job) == Append(q, job)

\* A faulty QueueWebhook, which on a full queue pushes the oldest item out.
QueueWebhookEvicting(q, webhook) ==
    IF Len(q) < WebhookCap THEN Append(q, webhook) ELSE Append(Tail(q), webhook)

\* Pool.QueueWebhook: a non-blocking send, dropped when the queue is full.
QueueWebhook(q, webhook) ==
    IF Len(q) < WebhookCap THEN Append(q, webhook) ELSE q

\* The send of a result at the end of a worker's loop body.
CanSendResult(q) == Len(q) < ResultsCap
SendResult(q, result) == Append(q, result)

(***************************************************************************)
(* BatchHandler (pkg/handlers/eis.go).                                     *)
(***************************************************************************)
Response(code, id) == [code |-> code, id |-> id]

\* The status and id BatchHandler.ServeHTTP answers with; 202 starts
\* processBatchAsync.
BatchResponse(req) ==
    IF req.method = "OPTIONS" THEN Response(200, << >>)
    ELSE IF req.method # "POST" THEN Response(405, << >>)
    ELSE IF ~req.json THEN Response(400, << >>)
    ELSE IF Len(req.spectra) = 0 THEN Response(400, << >>)
    ELSE Response(202, req.batch_id)

ZeroTiming == [iteration |-> 0, success |-> FALSE, written |-> FALSE]

\* BatchHandler.ServeHTTP on one of the given requests.
BatchServeHTTP(b, requests) ==
    /\ Alive
    /\ bpc[b] = "new"
    /\ \E req \in requests :
         /\ breq' = [breq EXCEPT ![b] = req]
         /\ bresp' = [bresp EXCEPT ![b] = BatchResponse(req)]
         /\ IF BatchResponse(req).code = 202
            THEN /\ bpc' = [bpc EXCEPT ![b] = "submit"]
                 /\ spectrumTimings' = [spectrumTimings EXCEPT ![b] = [k \in 1..Len(req.spectra) |-> ZeroTiming]]
            ELSE /\ bpc' = [bpc EXCEPT ![b] = "refused"]
                 /\ UNCHANGED spectrumTimings
    /\ UNCHANGED <<method, poolVars, submitted, resultsReceived, received, attempts, singleVars, fileVars, crashed, libVars>>

\* createWorkItem; owner records the batch the job was made for.
createWorkItem(item, batchID, requestID, b) ==
    [id |-> item.iteration, request_id |-> requestID, batch_id |-> batchID,
     iteration |-> item.iteration, data |-> item.data, owner |-> b]

\* One turn of the submission loop of processBatchAsync.
SubmitNext(b, randOK) ==
    /\ Alive
    /\ bpc[b] = "submit"
    /\ CanSubmitJob(jobs)
    /\   LET k == Len(submitted[b]) + 1
             job == createWorkItem(breq[b].spectra[k], breq[b].batch_id, GenerateID(randOK, b, k), b)
         IN  /\ jobs' = SubmitJob(jobs, job)
             /\ submitted' = [submitted EXCEPT ![b] = Append(@, job)]
             /\ bpc' = [bpc EXCEPT ![b] = IF k = Len(breq[b].spectra) THEN "collect" ELSE "submit"]
    /\ UNCHANGED <<method, results, webhookQueue, shutdown, shutpc, wpc, wjob, wres, whpc, dispatched, sent,
                   breq, bresp, resultsReceived, spectrumTimings, received, attempts, singleVars, fileVars, crashed, libVars>>

\* processResult indexes spectrumTimings by result.Iteration.
InRange(timings, iteration) == 0 <= iteration /\ iteration < Len(timings)

\* The table filled in the order of arrival.
RecordTimingByArrival(timings, result) ==
    [timings EXCEPT ![1 + Cardinality({k \in 1..Len(timings) : timings[k].written})] =
        [iteration |-> result.iteration, success |-> result.success, written |-> TRUE]]

RecordTiming(timings, result) ==
    [timings EXCEPT ![result.iteration + 1] =
        [iteration |-> result.iteration, success |-> result.success, written |-> TRUE]]

WebhookOfResult(result) ==
    [request_id |-> WebhookRequestID(result.request_id, result.iteration),
     nfreq |-> result.nfreq, nreal |-> result.nreal, nimag |-> result.nimag]

\* One turn of the collection loop of processBatchAsync: GetResult, then
\* processResult on what it returned, or a sleep when it returned nothing.
Collect(b) ==
    /\ Alive
    /\ bpc[b] = "collect"
    /\ \/ /\ results = << >>
          /\ UNCHANGED vars
       \/ /\ results # << >>
          /\ LET result == Head(results)
             IN  /\ results' = Tail(results)
                 /\ received' = [received EXCEPT ![b] = Append(@, result)]
                 /\ IF InRange(spectrumTimings[b], result.iteration)
                    THEN /\ spectrumTimings' = [spectrumTimings EXCEPT ![b] = RecordTiming(@, result)]
                         /\ webhookQueue' = QueueWebhook(webhookQueue, WebhookOfResult(result))
                         /\ attempts' = [attempts EXCEPT ![b] = Append(@, [webhook |-> WebhookOfResult(result), iteration |-> result.iteration])]
                         /\ resultsReceived' = [resultsReceived EXCEPT ![b] = @ + 1]
                         /\ bpc' = [bpc EXCEPT ![b] = IF resultsReceived[b] + 1 < Len(breq[b].spectra) THEN "collect" ELSE "save"]
                         /\ UNCHANGED crashed
                    ELSE /\ crashed' = "processResult"
                         /\ UNCHANGED <<spectrumTimings, webhookQueue, attempts, resultsReceived, bpc>>
          /\ UNCHANGED <<method, jobs, shutdown, shutpc, wpc, wjob, wres, whpc, dispatched, sent,
                         breq, bresp, submitted, singleVars, fileVars, libVars>>

TimingRow(b, batchID, timings) ==
    [batch |-> b, batch_id |-> batchID, numSpectra |-> Len(timings),
     successful |-> Cardinality({k \in 1..Len(timings) : timings[k].success})]

\* The header line; it belongs to no batch.
Header == [batch |-> 0, batch_id |-> << >>, numSpectra |-> 0, successful |-> 0]

\* What saveTimingResults writes when its csv.Writer is flushed: the header
\* if it found no file, then the row, in one append.
saveTimingResults(file, header, b, batchID, timings) ==
    file \o (IF header THEN <<Header>> ELSE << >>) \o <<TimingRow(b, batchID, timings)>>

\* os.Stat: the header is due if the file does not exist now.
SaveStat(b) ==
    /\ Alive
    /\ bpc[b] = "save"
    /\ writeHeader' = [writeHeader EXCEPT ![b] = ~fileExists]
    /\ bpc' = [bpc EXCEPT ![b] = "open"]
    /\ UNCHANGED <<method, poolVars, breq, bresp, submitted, resultsReceived, spectrumTimings,
                   received, attempts, singleVars, csv, fileExists, crashed, libVars>>

\* os.OpenFile with O_APPEND|O_CREATE: creates the file, or fails and
\* saveTimingResults returns.
SaveOpen(b) ==
    /\ Alive
    /\ bpc[b] = "open"
    /\ \E fileOK \in BOOLEAN :
         IF fileOK
         THEN /\ fileExists' = TRUE
              /\ bpc' = [bpc EXCEPT ![b] = "flush"]
              /\ UNCHANGED writeHeader
         ELSE /\ bpc' = [bpc EXCEPT ![b] = "done"]
              /\ writeHeader' = [writeHeader EXCEPT ![b] = FALSE]
              /\ UNCHANGED fileExists
    /\ UNCHANGED <<method, poolVars, breq, bresp, submitted, resultsReceived, spectrumTimings,
                   received, attempts, singleVars, csv, crashed, libVars>>

\* The deferred writer.Flush, and the return; writeHeader is a local of
\* the call.
SaveFlush(b) ==
    /\ Alive
    /\ bpc[b] = "flush"
    /\ csv' = saveTimingResults(csv, writeHeader[b], b, breq[b].batch_id, spectrumTimings[b])
    /\ bpc' = [bpc EXCEPT ![b] = "done"]
    /\ writeHeader' = [writeHeader EXCEPT ![b] = FALSE]
    /\ UNCHANGED <<method, poolVars, breq, bresp, submitted, resultsReceived, spectrumTimings,
                   received, attempts, singleVars, fileExists, crashed, libVars>>

SaveTiming(b) == SaveStat(b) \/ SaveOpen(b) \/ SaveFlush(b)

(***************************************************************************)
(* Workers and the webhook processor (pkg/worker/pool.go).                 *)
(***************************************************************************)
\* A faulty processJob, which copies every field but the request id.
WorkResultWithoutRequestID(job, status) ==
    [id |-> job.id, request_id |-> << >>, batch_id |-> job.batch_id,
     iteration |-> job.iteration, status |-> status, success |-> (status = "OK"),
     nfreq |-> job.data.nfreq, nreal |-> job.data.nimp, nimag |-> job.data.nimp, owner |-> job.owner]

\* The WorkResult processJob builds from the job and the processor's Result.
WorkResult(job, status) ==
    [id |-> job.id, request_id |-> job.request_id, batch_id |-> job.batch_id,
     iteration |-> job.iteration, status |-> status, success |-> (status = "OK"),
     nfreq |-> job.data.nfreq, nreal |-> job.data.nimp, nimag |-> job.data.nimp, owner |-> job.owner]

\* processJob: nothing recovers a panic of the processor.
processJob(job, m) ==
    LET out == ProcessorFunc(job.data, m)
    IN  IF out.panic THEN [panic |-> TRUE, result |-> << >>]
        ELSE [panic |-> FALSE, result |-> <<WorkResult(job, out.status)>>]

\* select, case job := <-p.jobs
WorkerReceive(w) ==
    /\ Alive
    /\ wpc[w] = "select"
    /\ jobs # << >>
    /\ wjob' = [wjob EXCEPT ![w] = <<Head(jobs)>>]
    /\ jobs' = Tail(jobs)
    /\ wpc' = [wpc EXCEPT ![w] = "run"]
    /\ UNCHANGED <<method, results, webhookQueue, shutdown, shutpc, wres, whpc, dispatched, sent,
                   batchVars, singleVars, fileVars, crashed, libVars>>

\* select, case <-p.shutdown
WorkerExit(w) ==
    /\ Alive
    /\ wpc[w] = "select"
    /\ shutdown
    /\ wpc' = [wpc EXCEPT ![w] = "exited"]
    /\ UNCHANGED <<method, jobs, results, webhookQueue, shutdown, shutpc, wjob, wres, whpc, dispatched, sent,
                   batchVars, singleVars, fileVars, crashed, libVars>>

\* result := p.processJob(job)
WorkerProcess(w) ==
    /\ Alive
    /\ wpc[w] = "run"
    /\   LET out == processJob(Head(wjob[w]), method)
         IN  IF out.panic
             THEN /\ crashed' = "processJob"
                  /\ UNCHANGED <<wpc, wjob, wres>>
             ELSE /\ wres' = [wres EXCEPT ![w] = out.result]
                  /\ wjob' = [wjob EXCEPT ![w] = << >>]
                  /\ wpc' = [wpc EXCEPT ![w] = "send"]
                  /\ UNCHANGED crashed
    /\ UNCHANGED <<method, jobs, results, webhookQueue, shutdown, shutpc, whpc, dispatched, sent,
                   batchVars, singleVars, fileVars, libVars>>

\* p.results <- result
WorkerSend(w) ==
    /\ Alive
    /\ wpc[w] = "send"
    /\ CanSendResult(results)
    /\ results' = SendResult(results, Head(wres[w]))
    /\ wres' = [wres EXCEPT ![w] = << >>]
    /\ wpc' = [wpc EXCEPT ![w] = "select"]
    /\ UNCHANGED <<method, jobs, webhookQueue, shutdown, shutpc, wjob, whpc, dispatched, sent,
                   batchVars, singleVars, fileVars, crashed, libVars>>

\* webhookProcessor, case webhook := <-p.webhookQueue: go p.sendWebhook(webhook)
WebhookDispatch ==
    /\ Alive
    /\ whpc = "select"
    /\ webhookQueue # << >>
    /\ dispatched' = Append(dispatched, Head(webhookQueue))
    /\ webhookQueue' = Tail(webhookQueue)
    /\ UNCHANGED <<method, jobs, results, shutdown, shutpc, wpc, wjob, wres, whpc, sent,
                   batchVars, singleVars, fileVars, crashed, libVars>>

\* Pool.sendWebhook: the HTTP POSTs the goroutine makes for the item.  It
\* logs the item's request id and makes none.
sendWebhook(webhook) == << >>

\* The POSTs made for the first n of the items.
RECURSIVE PostsOf(_, _)
PostsOf(items, n) == IF n = 0 THEN << >> ELSE PostsOf(items, n - 1) \o sendWebhook(items[n])

\* A sendWebhook goroutine started by the webhook processor returns.  The
\* goroutines are not counted in the pool's WaitGroup.
SendWebhookReturn ==
    /\ Alive
    /\ sent < Len(dispatched)
    /\ sent' = sent + 1
    /\ UNCHANGED <<method, jobs, results, webhookQueue, shutdown, shutpc, wpc, wjob, wres, whpc, dispatched,
                   batchVars, singleVars, fileVars, crashed, libVars>>

\* webhookProcessor, case <-p.shutdown
WebhookExit ==
    /\ Alive
    /\ whpc = "select"
    /\ shutdown
    /\ whpc' = "exited"
    /\ UNCHANGED <<method, jobs, results, webhookQueue, shutdown, shutpc, wpc, wjob, wres, dispatched, sent,
                   batchVars, singleVars, fileVars, crashed, libVars>>

\* Pool.Shutdown up to wg.Wait: close(p.shutdown)
PoolShutdown ==
    /\ Alive
    /\ shutpc = "none"
    /\ shutdown' = TRUE
    /\ shutpc' = "wait"
    /\ UNCHANGED <<method, jobs, results, webhookQueue, wpc, wjob, wres, whpc, dispatched, sent,
                   batchVars, singleVars, fileVars, crashed, libVars>>

\* wg.Wait returns once every worker and the webhook processor are done.
WaitGroupDone == (\A w \in WorkerIds : wpc[w] = "exited") /\ whpc = "exited"

PoolShutdownReturn ==
    /\ Alive
    /\ shutpc = "wait"
    /\ WaitGroupDone
    /\ shutpc' = "returned"
    /\ UNCHANGED <<method, jobs, results, webhookQueue, shutdown, wpc, wjob, wres, whpc, dispatched, sent,
                   batchVars, singleVars, fileVars, crashed, libVars>>

(***************************************************************************)
(* EISHandler (pkg/handlers/eis.go).                                       *)
(***************************************************************************)
SingleResponse(req, requestID) ==
    IF req.method = "OPTIONS" THEN Response(200, << >>)
    ELSE IF req.method # "POST" THEN Response(405, << >>)
    ELSE IF ~req.json THEN Response(400, << >>)
    ELSE IF req.data.nfreq = 0 THEN Response(400, << >>)
    ELSE Response(202, requestID)

\* EISHandler.ServeHTTP on one of the given requests.
EISServeHTTP(s, requests, randOK) ==
    /\ Alive
    /\ spc[s] = "new"
    /\ \E req \in requests :
         LET resp == SingleResponse(req, GenerateID(randOK, MaxBatches + 1, s))
         IN  /\ sresp' = [sresp EXCEPT ![s] = resp]
             /\ spc' = [spc EXCEPT ![s] = IF resp.code = 202 THEN "fit" ELSE "refused"]
             /\ sreq' = [sreq EXCEPT ![s] = req]
    /\ UNCHANGED <<method, poolVars, batchVars, sattempts, fileVars, crashed, libVars>>

WebhookOfSingle(requestID, req) ==
    [request_id |-> requestID, nfreq |-> req.data.nfreq, nreal |-> req.data.nimp, nimag |-> req.data.nimp]

\* processAsync: the processor runs on the request's own goroutine, then
\* the webhook is queued.
ProcessAsync(s) ==
    /\ Alive
    /\ spc[s] = "fit"
    /\   LET out == processEISData(sreq[s].data, method)
             webhook == WebhookOfSingle(sresp[s].id, sreq[s])
         IN  IF out.panic
             THEN /\ crashed' = "processAsync"
                  /\ UNCHANGED <<webhookQueue, sattempts, spc>>
             ELSE /\ webhookQueue' = QueueWebhook(webhookQueue, webhook)
                  /\ sattempts' = [sattempts EXCEPT ![s] = Append(@, webhook)]
                  /\ spc' = [spc EXCEPT ![s] = "done"]
                  /\ UNCHANGED crashed
    /\ UNCHANGED <<method, jobs, results, shutdown, shutpc, wpc, wjob, wres, whpc, dispatched, sent,
                   batchVars, sreq, sresp, fileVars, libVars>>

(***************************************************************************)
(* The webhook client (pkg/webhook).  A float64 is one of four kinds of    *)
(* value, or the 0.0 the client substitutes; an array is a sequence of     *)
(* them.                                                                   *)
(***************************************************************************)
FloatVals == {"1.5", "NaN", "+Inf", "-Inf"}

FloatSeqs == UNION { [1..n -> FloatVals] : n \in 0..MaxLen }

\* math.IsNaN(value) || math.IsInf(value, 0)
NonFinite(value) == value = "NaN" \/ value \in {"+Inf", "-Inf"}

\* Client.sanitizeFloat
sanitizeFloat(value) == IF NonFinite(value) THEN "0.0" ELSE value

\* models.WebhookItem, the numeric fields.
WebhookItems ==
    [chi_square : FloatVals, real : FloatSeqs, imag : FloatSeqs, freqs : FloatSeqs, params : FloatSeqs]

\* encoding/json refuses a float64 that is NaN or an infinity.
EncodesArray(a) == \A i \in 1..Len(a) : ~NonFinite(a[i])

Encodes(payload) ==
    /\ ~NonFinite(payload.chi_square)
    /\ EncodesArray(payload.real_impedance)
    /\ EncodesArray(payload.imaginary_impedance)
    /\ EncodesArray(payload.frequencies)
    /\ EncodesArray(payload.parameters)

\* Client.Send: the error it returns and the payloads it POSTs.
Send(webhook) ==
    LET payload == [chi_square |-> sanitizeFloat(webhook.chi_square),
                    real_impedance |-> webhook.real,
                    imaginary_impedance |-> webhook.imag,
                    frequencies |-> webhook.freqs,
                    parameters |-> webhook.params]
    IN  IF Encodes(payload)
        THEN [err |-> FALSE, posted |-> <<payload>>]
        ELSE [err |-> TRUE, posted |-> << >>]

Call(fn, arg) == [fn |-> fn, arg |-> arg]

SendCalls == { Call("Send", w) : w \in WebhookItems }

\* The call under study returns.
Return(value) ==
    /\ ret = << >>
    /\ ret' = <<value>>
    /\ UNCHANGED <<pipelineVars, call, bufVars>>

ClientSend == call.fn = "Send" /\ Return(Send(call.arg))

\* What the network does to the one POST of a delivery: a response of a
\* status class, or a transport error.
HTTPOutcomes == {"2xx", "4xx", "5xx", "timeout", "refused"}

TransportError(outcome) == outcome \in {"timeout", "refused"}

\* Client.Send from httpClient.Post on, for a payload that encodes: one
\* POST; the transport error, or a status of 400 and above, is returned as
\* an error.
SendPost(outcome) ==
    [posts |-> 1, err |-> TransportError(outcome) \/ outcome \in {"4xx", "5xx"}, logged |-> FALSE]

\* sendWebhook of cmd/goimpsolver from http.Post on: one POST; the
\* transport error is logged; the status is printed in the "Webhook sent"
\* line and not looked at.
cmdSendWebhook(outcome) ==
    [posts |-> 1, err |-> FALSE, logged |-> TransportError(outcome)]

DeliveryCalls == { Call(fn, o) : fn \in {"SendPost", "cmdSendWebhook"}, o \in HTTPOutcomes }

ClientSendPost == call.fn = "SendPost" /\ Return(SendPost(call.arg))

CmdSendWebhook == call.fn = "cmdSendWebhook" /\ Return(cmdSendWebhook(call.arg))

\* The five inner solvers, each on each outcome of its minimizer.
InnerSolvers == {"baseNMSolve", "baseLMSolve", "baseGDSolve", "baseLBFGSSolve", "baseNewtonSolve"}

InnerSolveCalls == { Call(fn, o) : fn \in InnerSolvers, o \in Outcomes }

InnerSolveOf(fn, outcome) ==
    CASE fn = "baseNMSolve" -> baseNMSolve(outcome)
      [] fn = "baseLMSolve" -> baseLMSolve(outcome)
      [] fn = "baseGDSolve" -> baseGDSolve(outcome)
      [] fn = "baseLBFGSSolve" -> baseLBFGSSolve(outcome)
      [] fn = "baseNewtonSolve" -> baseNewtonSolve(outcome)

InnerSolve == call.fn \in InnerSolvers /\ Return(InnerSolveOf(call.fn, call.arg))

\* Circuit codes, lower-cased as NewSolver keeps them, one character per
\* position.
Rcr == <<"r", "(", "c", "r", ")">>
Rqr == <<"r", "(", "q", "r", ")">>
Rcrcr == Rcr \o <<"(", "c", "r", ")">>
Rqrqr == <<"r", "(", "q", "(", "r", "(", "q", "r", ")", ")", ")">>
Rqrqrqr == <<"r", "(", "q", "(", "r", "(", "q", "(", "r", "(", "q", "r", ")", ")", ")", ")", ")">>

\* Codes outside the table of generateInitialValues.
Codes == {Rcr, Rqr, Rcrcr, Rqrqr, Rqrqrqr, <<"r">>, <<"r", "f">>, <<"r", "(", "c", "r", ")", "(", "q", "r", ")">>}

\* GetElements: the parameter names of a code, in order; characters that
\* name no element are skipped.
ElementsOf(char) ==
    CASE char \in {"r", "c", "l", "w"} -> <<char>>
      [] char = "q" -> <<"qy", "qn">>
      [] char = "o" -> <<"oy", "ob">>
      [] char = "t" -> <<"ty", "tb">>
      [] char = "g" -> <<"gy", "gk">>
      [] char = "f" -> <<"fy", "fk", "fa">>
      [] OTHER -> << >>

RECURSIVE GetElements(_)
GetElements(code) ==
    IF code = << >> THEN << >>
    ELSE ElementsOf(Head(code)) \o GetElements(Tail(code))

generateInitialValues(code) ==
    CASE code = Rcr -> <<"50.0", "1e-6", "100.0">>
      [] code = Rqr -> <<"50.0", "1e-6", "0.8", "100.0">>
      [] code = Rcrcr -> <<"50.0", "1e-6", "100.0", "1e-6", "100.0">>
      [] code = Rqrqr -> <<"50.0", "1e-6", "0.8", "100.0", "1e-6", "0.8", "100.0">>
      [] code = Rqrqrqr -> <<"50.0", "1e-6", "0.8", "100.0", "1e-6", "0.8", "100.0", "1e-6", "0.8", "100.0">>
      [] OTHER -> <<"50.0", "1e-6", "0.8", "100.0">>

\* cfg.InitValues of a request: none, or a vector of some length.
ProvidedInitValues == {<< >>, <<"1.0">>, <<"1.0", "1.0", "1.0", "1.0">>}

\* The head of runSingleOptimizationMethod: the InitValues the solver is
\* given. No path refuses the call.
SolverInitValues(code, provided) ==
    [rejected |-> FALSE,
     InitValues |-> IF Len(provided) > 0 THEN provided ELSE generateInitialValues(code)]

InitValuesCalls == { Call("SolverInitValues", <<code, provided>>) : code \in Codes, provided \in ProvidedInitValues }

SetInitValues == call.fn = "SolverInitValues" /\ Return(SolverInitValues(call.arg[1], call.arg[2]))

\* float64 values of the observed data: a finite value is a reduced
\* fraction <<num, den>> with den > 0 (products and quotients are taken
\* exactly, without rounding); NaN, +Inf and -Inf have den = 0.
RECURSIVE Gcd(_, _)
Gcd(a, b) == IF b = 0 THEN a ELSE Gcd(b, a % b)

Abs(n) == IF n < 0 THEN -n ELSE n

Frac(num, den) ==
    LET g == Gcd(Abs(num), den)
    IN  <<num \div g, den \div g>>

Float(n) == <<n, 1>>

NaN == <<0, 0>>
PosInf == <<1, 0>>
NegInf == <<-1, 0>>

\* v / m and v * m for a finite m >= 0, as IEEE 754 defines them at zero
\* and at the infinities.
FloatDiv(v, m) ==
    CASE v[2] = 0 -> v
      [] m[1] = 0 -> IF v[1] = 0 THEN NaN ELSE IF v[1] > 0 THEN PosInf ELSE NegInf
      [] OTHER -> Frac(v[1] * m[2], v[2] * m[1])

FloatMul(v, m) ==
    CASE v = NaN -> NaN
      [] v[2] = 0 -> IF m[1] = 0 THEN NaN ELSE v
      [] OTHER -> Frac(v[1] * m[1], v[2] * m[2])

FloatGreater(v, m) == v[1] * m[2] > m[1] * v[2]

\* The observed spectra a solver is built on: up to MaxPoints points of
\* [real, imaginary].
MaxPoints == 2

ObservedVals == {Float(-1), Float(0), Float(2)}

ObservedData == UNION { [1..n -> ObservedVals \X ObservedVals] : n \in 1..MaxPoints }

\* prepareData: the largest positive real part, zero if there is none, and
\* the data divided by it in place.
RECURSIVE MaxZr(_, _)
MaxZr(impData, maxZr) ==
    IF impData = << >> THEN maxZr
    ELSE MaxZr(Tail(impData), IF FloatGreater(Head(impData)[1], maxZr) THEN Head(impData)[1] ELSE maxZr)

prepareData(impData) ==
    LET maxZr == MaxZr(impData, Float(0))
    IN  [scaleCoef |-> maxZr,
         impData |-> [i \in 1..Len(impData) |-> <<FloatDiv(impData[i][1], maxZr), FloatDiv(impData[i][2], maxZr)>>]]

scaleData(impData, scale) ==
    [i \in 1..Len(impData) |-> <<FloatMul(impData[i][1], scale), FloatMul(impData[i][2], scale)>>]

\* eisSolve on a solver with the given Observed: the result, and Observed
\* as the call leaves it. scaleData is the last statement; a panic before
\* it (of the minimizer, or of scaleParams) leaves the divided data.
eisSolveOn(observed, outcome) ==
    LET prepared == prepareData(observed)
        res == eisSolve(outcome)
    IN  [res |-> res,
         Observed |-> IF res.panic THEN prepared.impData
                      ELSE scaleData(prepared.impData, prepared.scaleCoef)]

EisSolveCalls == { Call("eisSolve", <<observed, outcome>>) : observed \in ObservedData, outcome \in Outcomes }

EisSolve == call.fn = "eisSolve" /\ Return(eisSolveOn(call.arg[1], call.arg[2]))

\* float64 sums, differences and squares, exact on finite values.
FloatAdd(a, b) ==
    CASE a = NaN \/ b = NaN -> NaN
      [] a[2] = 0 /\ b[2] = 0 -> IF a = b THEN a ELSE NaN
      [] a[2] = 0 -> a
      [] b[2] = 0 -> b
      [] OTHER -> Frac(a[1] * b[2] + b[1] * a[2], a[2] * b[2])

FloatNeg(a) == <<-a[1], a[2]>>

FloatSub(a, b) == FloatAdd(a, FloatNeg(b))

\* math.Pow(a, 2)
Square(a) ==
    IF a[2] = 0 THEN (IF a = NaN THEN NaN ELSE PosInf)
    ELSE Frac(a[1] * a[1], a[2] * a[2])

\* The points ChiSq is studied on; the first has modulus zero.
ChiPoints == {<<Float(0), Float(0)>>, <<Float(2), Float(0)>>, <<Float(-1), Float(2)>>}

ChiData == UNION { [1..n -> ChiPoints] : n \in 1..MaxPoints }

Weightings == {"UNITY", "MODULUS"}

\* d2 of one point.
Residual(o, c) == FloatAdd(Square(FloatSub(o[1], c[1])), Square(FloatSub(o[2], c[2])))

\* math.Pow(weight, 2) for weight = math.Sqrt(o[0]^2 + o[1]^2), taken
\* without rounding; weight > 0 exactly when it is.
Weight2(o) == FloatAdd(Square(o[1]), Square(o[2]))

\* A MODULUS term that divides by the squared modulus even when it is zero.
ModulusTermUnguarded(o, d2) == FloatDiv(d2, Weight2(o))

\* The MODULUS branch: d2 / weight^2, or d2 itself at modulus zero.
ModulusTerm(o, d2) ==
    IF FloatGreater(Weight2(o), Float(0)) THEN FloatDiv(d2, Weight2(o)) ELSE d2

RECURSIVE ChiSqLoop(_, _, _, _, _)
ChiSqLoop(i, observed, calculated, weighting, chiSq) ==
    IF i > Len(observed) THEN chiSq
    ELSE LET d2 == Residual(observed[i], calculated[i])
             term == CASE weighting = "UNITY" -> d2
                       [] weighting = "MODULUS" -> ModulusTerm(observed[i], d2)
                       [] OTHER -> Float(0)
         IN  ChiSqLoop(i + 1, observed, calculated, weighting, FloatAdd(chiSq, term))

\* ChiSq: panics on a length mismatch, else the sum divided by the number
\* of points.
ChiSq(observed, calculated, weighting) ==
    IF Len(observed) # Len(calculated) THEN [panic |-> TRUE, value |-> NaN]
    ELSE [panic |-> FALSE,
          value |-> FloatDiv(ChiSqLoop(1, observed, calculated, weighting, Float(0)), Float(Len(observed)))]

ChiSqCalls == { Call("ChiSq", <<o, c, w>>) : o \in ChiData, c \in ChiData, w \in Weightings }

ChiSqReturn == call.fn = "ChiSq" /\ Return(ChiSq(call.arg[1], call.arg[2], call.arg[3]))

\* CircuitImpedance, as far as its parameter index goes: for each element
\* character of the code, in order, the indices of values it reads. The
\* parentheses continue the loop; every other character, element or not,
\* reaches the i++ after the switch.
Extra(char) ==
    CASE char \in {"q", "o", "t", "g"} -> 1
      [] char = "f" -> 2
      [] OTHER -> 0

ReadsOf(char, i) ==
    CASE char \in {"r", "c", "l", "w"} -> <<<<i>>>>
      [] char \in {"q", "o", "t", "g"} -> <<<<i, i + 1>>>>
      [] char = "f" -> <<<<i, i + 1, i + 2>>>>
      [] OTHER -> << >>

RECURSIVE ImpedanceReads(_, _)
ImpedanceReads(code, i) ==
    IF code = << >> THEN << >>
    ELSE IF Head(code) \in {"(", ")"} THEN ImpedanceReads(Tail(code), i)
    ELSE ReadsOf(Head(code), i) \o ImpedanceReads(Tail(code), i + Extra(Head(code)) + 1)

\* values[i] panics past the end of values.
CircuitImpedance(code, values) ==
    LET reads == ImpedanceReads(code, 0)
    IN  [panic |-> \E k \in DOMAIN reads : \E j \in DOMAIN reads[k] : reads[k][j] >= Len(values),
         reads |-> reads]

\* Codes with characters that name no element.
ImpedanceCodes == Codes \cup {<<"r", "-", "c">>, <<"r", "1", "(", "q", "1", "r", "2", ")">>}

\* A value for each parameter name GetElements gives the code.
CircuitImpedanceCalls == { Call("CircuitImpedance", <<code, GetElements(code)>>) : code \in ImpedanceCodes }

CircuitImpedanceReturn == call.fn = "CircuitImpedance" /\ Return(CircuitImpedance(call.arg[1], call.arg[2]))

\* CircuitImpedance for one frequency as far as its stack goes: "(" pushes,
\* ")" pops and panics on a stack that is nil (the explicit panic) or
\* empty (stack[len(stack)-1]); an element panics on a read past values.
RECURSIVE ImpedanceWalk(_, _, _, _)
ImpedanceWalk(code, i, depth, nvalues) ==
    IF code = << >> THEN "ok"
    ELSE CASE Head(code) = "(" -> ImpedanceWalk(Tail(code), i, depth + 1, nvalues)
           [] Head(code) = ")" ->
                IF depth = 0 THEN "panic" ELSE ImpedanceWalk(Tail(code), i, depth - 1, nvalues)
           [] OTHER ->
                IF i + Extra(Head(code)) >= nvalues /\ ReadsOf(Head(code), i) # << >> THEN "panic"
                ELSE ImpedanceWalk(Tail(code), i + Extra(Head(code)) + 1, depth, nvalues)

\* The [real, imag] pairs CircuitImpedance returns: one appended for each
\* frequency, unless the walk of the code panics at the first.
CircuitImpedancePoints(code, freqs, values) ==
    IF Len(freqs) > 0 /\ ImpedanceWalk(code, 0, 0, Len(values)) = "panic"
    THEN [panic |-> TRUE, pairs |-> 0]
    ELSE [panic |-> FALSE, pairs |-> Len(freqs)]

\* Every code of up to MaxCode characters over elements of one, two and
\* three parameters and the parentheses.
MaxCode == 3
CodeChars == {"r", "c", "q", "f", "(", ")"}
LanguageCodes == UNION { [1..n -> CodeChars] : n \in 1..MaxCode }

CircuitImpedancePointsCalls ==
    { Call("CircuitImpedancePoints", <<code, freqs, GetElements(code)>>) :
        code \in LanguageCodes, freqs \in {<<1>>, <<100, 1>>} }

CircuitImpedancePointsReturn ==
    /\ call.fn = "CircuitImpedancePoints"
    /\ Return(CircuitImpedancePoints(call.arg[1], call.arg[2], call.arg[3]))

\* The per-element impedance calculators. An output entry is its display
\* name, the position of its tag, the positions of the parameters its
\* impedance is computed from, and its number of impedance points.
ElementImpedance(name, index, uses, n) == [name |-> name, index |-> index, uses |-> uses, n |-> n]

getDisplayName(elementName) == IF elementName = "qn" THEN "Q" ELSE elementName

\* The parameters calculateElementImpedance reads for the tag at index.
UsesOf(elementNames, index) ==
    CASE elementNames[index] \in {"r", "c", "l", "w"} -> {index}
      [] elementNames[index] = "qn" ->
            IF index > 1 /\ elementNames[index - 1] = "qy" THEN {index - 1, index} ELSE {}
      [] OTHER -> {}

\* Calculator.CalculateElementImpedances: calculateImpedanceForElement
\* appends one point per frequency for every tag, qy (complex(0, 0))
\* included, so len(impedances) > 0 whenever there is a frequency.
RECURSIVE CalculatorLoop(_, _, _, _)
CalculatorLoop(i, nfreq, parameters, elementNames) ==
    IF i > Len(elementNames) \/ i > Len(parameters) THEN << >>
    ELSE (IF nfreq > 0
          THEN <<ElementImpedance(getDisplayName(elementNames[i]), i, UsesOf(elementNames, i), nfreq)>>
          ELSE << >>)
             \o CalculatorLoop(i + 1, nfreq, parameters, elementNames)

CalculateElementImpedances(nfreq, parameters, elementNames) ==
    CalculatorLoop(1, nfreq, parameters, elementNames)

\* calculateElementImpedances of cmd/goimpsolver: the qy case continues
\* the frequency loop, so its impedances stay empty and no entry is added.
RECURSIVE calculateLoop(_, _, _, _)
calculateLoop(i, nfreq, parameters, elementNames) ==
    IF i > Len(elementNames) \/ i > Len(parameters) THEN << >>
    ELSE (IF nfreq > 0 /\ elementNames[i] # "qy"
          THEN <<ElementImpedance(getDisplayName(elementNames[i]), i, UsesOf(elementNames, i), nfreq)>>
          ELSE << >>)
             \o calculateLoop(i + 1, nfreq, parameters, elementNames)

calculateElementImpedances(nfreq, parameters, elementNames) ==
    calculateLoop(1, nfreq, parameters, elementNames)

\* Calls on the tags of a code, one parameter per tag, at least one
\* frequency.
ElementCalls ==
    { Call(fn, <<nfreq, GetElements(code), GetElements(code)>>) :
        fn \in {"CalculateElementImpedances", "calculateElementImpedances"},
        nfreq \in 1..MaxPoints, code \in Codes }

CalculatorReturn ==
    /\ call.fn = "CalculateElementImpedances"
    /\ Return(CalculateElementImpedances(call.arg[1], call.arg[2], call.arg[3]))

calculateReturn ==
    /\ call.fn = "calculateElementImpedances"
    /\ Return(calculateElementImpedances(call.arg[1], call.arg[2], call.arg[3]))

\* scaleParams: panics on a length mismatch; multiplies the values of the
\* tags r, qn, ob, ty, tb by scale, divides those of c, w, qy, oy by it
\* and leaves the rest (l, gy, gk, fy, fk, fa) as they are.
ScaleParam(value, tag, scale) ==
    CASE tag \in {"r", "qn", "ob", "ty", "tb"} -> FloatMul(value, scale)
      [] tag \in {"c", "w", "qy", "oy"} -> FloatDiv(FloatMul(value, Float(1)), scale)
      [] OTHER -> value

scaleParams(params, elements, scale) ==
    IF Len(params) # Len(elements) THEN [panic |-> TRUE, params |-> params]
    ELSE [panic |-> FALSE,
          params |-> [i \in 1..Len(params) |-> ScaleParam(params[i], elements[i], scale)]]

\* Circuits of every element kind.
ScaleCodes == Codes \cup {<<"r", "l">>, <<"r", "w">>, <<"r", "o">>, <<"r", "t">>, <<"r", "g">>}

\* The scale coefficients prepareData returns on data with a positive real
\* part.
ScaleCoefs == {Float(1), Float(2), Float(3)}

\* The fitted parameters of the normalized data: two for each tag.
ScaleParamsCalls ==
    { Call("scaleParams", <<[i \in 1..Len(GetElements(code)) |-> Float(2)], GetElements(code), scale>>) :
        code \in ScaleCodes, scale \in ScaleCoefs }

ScaleParamsReturn == call.fn = "scaleParams" /\ Return(scaleParams(call.arg[1], call.arg[2], call.arg[3]))

\* All-methods mode. A run of one method is what its minimizer does and,
\* when it converges, the chi-square it reaches.
AllMethods == <<"nelder-mead", "levenberg-marquardt", "gradient-descent", "lbfgs", "newton">>

ChiSquares == {1, 2}

MethodRuns ==
    { [outcome |-> "ok", min |-> m] : m \in ChiSquares }
        \cup { [outcome |-> o, min |-> 0] : o \in Outcomes \ {"ok"} }

\* Result.Min as a float64.
MinOf(res, run) ==
    CASE res.min = "finite" -> Float(run.min)
      [] res.min = "0.0" -> Float(0)
      [] OTHER -> PosInf

\* runSingleOptimizationMethod on a run: the solver's Result, or its panic.
MethodResult(name, run) ==
    LET res == runSingleOptimizationMethod(name, run.outcome)
    IN  IF res.panic THEN Panic
        ELSE Result(res.status, MinOf(res, run), res.nparams)

\* The loop of runAllOptimizationMethods from method i on.
RECURSIVE TestMethods(_, _, _, _)
TestMethods(i, runs, bestResult, bestChiSq) ==
    IF i > Len(AllMethods) THEN bestResult
    ELSE LET result == MethodResult(AllMethods[i], runs[i])
         IN  IF result.panic THEN Panic
             ELSE IF result.status # "ERROR" /\ FloatGreater(bestChiSq, result.min)
                  THEN TestMethods(i + 1, runs, result, result.min)
                  ELSE TestMethods(i + 1, runs, bestResult, bestChiSq)

runAllOptimizationMethods(runs) ==
    LET bestResult == TestMethods(1, runs, Result("", Float(0), 0), PosInf)
    IN  IF bestResult.panic THEN Panic
        ELSE IF bestResult.status = "" THEN Result("ERROR", PosInf, 0)
        ELSE bestResult

AllMethodsCalls == { Call("runAllOptimizationMethods", runs) : runs \in [1..Len(AllMethods) -> MethodRuns] }

RunAllMethods == call.fn = "runAllOptimizationMethods" /\ Return(runAllOptimizationMethods(call.arg))

\* a < b on float64 values; false when either is NaN.
FloatLess(a, b) == FloatGreater(b, a)

\* The 1.1 of modifyParams.
Factor == Frac(11, 10)

\* One turn of the loop of modifyParams, on values[i] = n: the tests read
\* the n the turn started with, the assignments go to values[i].
ModifyValueUnclamped(n, primary, tag) ==
    LET restored == IF FloatLess(n, Float(0)) THEN primary ELSE n
        floored == IF tag = "qn" /\ FloatLess(n, Float(0)) THEN Float(0) ELSE restored
    IN  IF tag \in {"r", "c", "qy"} THEN FloatMul(floored, Factor) ELSE floored

ModifyValue(n, primary, tag) ==
    LET restored == IF FloatLess(n, Float(0)) THEN primary ELSE n
        capped == IF tag = "qn" /\ FloatGreater(n, Float(1)) THEN Float(1) ELSE restored
        floored == IF tag = "qn" /\ FloatLess(n, Float(0)) THEN Float(0) ELSE capped
    IN  IF tag \in {"r", "c", "qy"} THEN FloatMul(floored, Factor) ELSE floored

\* modifyParams: it indexes primaryValues (for a negative value) and
\* elements at every index of values, changes values in place and returns
\* the same slice.
modifyParams(values, primaryValues, elements) ==
    IF \E i \in 1..Len(values) :
           \/ i > Len(elements)
           \/ FloatLess(values[i], Float(0)) /\ i > Len(primaryValues)
    THEN [panic |-> TRUE, values |-> values]
    ELSE [panic |-> FALSE,
          values |-> [i \in 1..Len(values) |->
                         ModifyValue(values[i], IF i <= Len(primaryValues) THEN primaryValues[i] ELSE NaN, elements[i])]]

\* Parameter values a Nelder-Mead run ends on, and the non-negative initial
\* values a solver starts from.
ParamVals == {Float(-1), Float(0), Frac(1, 2), Float(1), Float(2)}
PrimaryVals == {Float(0), Float(3)}

\* Circuits of two parameters.
ModifyCodes == {<<"r", "c">>, <<"q">>, <<"l", "w">>, <<"t">>}

ModifyParamsCalls ==
    { Call("modifyParams", <<values, primary, GetElements(code)>>) :
        values \in [1..2 -> ParamVals], primary \in [1..2 -> PrimaryVals], code \in ModifyCodes }

ModifyParamsReturn == call.fn = "modifyParams" /\ Return(modifyParams(call.arg[1], call.arg[2], call.arg[3]))

\* The retry loop of eisSolve, run by run. A baseNMSolve run is what the
\* minimizer ends on: its chi-square and its vector X, or an error (Min
\* +Inf, no Params). Result.Params is a slice: bestRes = res copies the
\* slice header, so bestRes.Params and res.Params are one array. heap[k] is
\* the array of run k as it now stands and bestRef the run whose array
\* bestRes.Params points to (0 for the nil slice of the initial bestRes).
NMRun(min, X) == [min |-> min, X |-> X, status |-> "OK"]
NoRun == [min |-> PosInf, X |-> << >>, status |-> "ERROR"]

LoopStart(initValues) ==
    [iterations |-> 0, InitValues |-> initValues, heap |-> << >>,
     bestMin |-> PosInf, bestRef |-> 0, bestStatus |-> "", done |-> FALSE, panic |-> FALSE]

RECURSIVE eisLoop(_, _, _, _, _, _)
eisLoop(st, runs, minFunc, maxIterations, primaryValues, elements) ==
    IF st.done \/ st.panic \/ st.iterations >= maxIterations THEN st
    ELSE LET k == Len(st.heap) + 1
             res == IF st.InitValues = << >> THEN NoRun ELSE runs[k]
             adopt == FloatLess(res.min, st.bestMin)
             st1 == [st EXCEPT !.heap = Append(@, res.X),
                               !.bestMin = IF adopt THEN res.min ELSE @,
                               !.bestRef = IF adopt THEN k ELSE @,
                               !.bestStatus = IF adopt THEN res.status ELSE @]
         IN  IF FloatLess(res.min, minFunc) THEN [st1 EXCEPT !.done = TRUE]
             ELSE LET mod == modifyParams(res.X, primaryValues, elements)
                  IN  IF mod.panic THEN [st1 EXCEPT !.panic = TRUE]
                      ELSE eisLoop([st1 EXCEPT !.heap[k] = mod.values,
                                               !.InitValues = mod.values,
                                               !.iterations = @ + 1],
                                   runs, minFunc, maxIterations, primaryValues, elements)

\* eisSolve from the loop on: the loop, then scaleParams on bestRes.Params.
\* runs counts the baseNMSolve calls made.
eisSolveRuns(runs, minFunc, maxIterations, initValues, elements, scaleCoef) ==
    LET st == eisLoop(LoopStart(initValues), runs, minFunc, maxIterations, initValues, elements)
        params == IF st.bestRef = 0 THEN << >> ELSE st.heap[st.bestRef]
        scaled == scaleParams(params, elements, scaleCoef)
    IN  [panic |-> st.panic \/ scaled.panic, status |-> st.bestStatus, min |-> st.bestMin,
         params |-> scaled.params, runs |-> Len(st.heap)]

\* The runs a minimizer can make on a circuit of two parameters: the
\* chi-squares 1, 2, 3 on one of two vectors, or an error.
MaxIterations == 3
MinTarget == Float(2)
RunMins == {Float(1), Float(2), Float(3)}
RunVectors == {<<Float(2), Frac(1, 2)>>, <<Float(-1), Float(2)>>}
NMRuns == { NMRun(min, X) : min \in RunMins, X \in RunVectors } \cup {NoRun}
LoopCodes == {<<"r", "c">>, <<"q">>}

\* A failed run leaves the next InitValues empty, on which the minimizer
\* fails again.
RunSeqs ==
    { runs \in [1..MaxIterations -> NMRuns] :
        \A k \in 1..(MaxIterations - 1) : runs[k] = NoRun => runs[k + 1] = NoRun }

EisLoopCalls ==
    { Call("eisSolveRuns", <<runs, MinTarget, maxIterations, <<Float(3), Float(3)>>, GetElements(code), scale>>) :
        runs \in RunSeqs, maxIterations \in 1..MaxIterations,
        code \in LoopCodes, scale \in {Float(1), Float(2)} }

EisLoopReturn ==
    /\ call.fn = "eisSolveRuns"
    /\ Return(eisSolveRuns(call.arg[1], call.arg[2], call.arg[3], call.arg[4], call.arg[5], call.arg[6]))

\* The tail of runSingleOptimizationMethod: the chi-square recalculation.
\* res is what Solve returned (Status, Min, MinUnit, the length of Params)
\* and actualChiSq what ChiSq(impData, CircuitImpedance(code, freqs,
\* res.Params)) gives. The test reads the method name and cfg.SmartMode,
\* the -m setting of the configuration, not the solver's SmartMode.
IsFinite(v) == v[2] # 0

Recalculate(name, cfgSmartMode, res, actualChiSq) ==
    IF /\ res.status # "ERROR"
       /\ res.nparams > 0
       /\ (res.minUnit # "ChiSq" \/ name # "levenberg-marquardt")
       /\ cfgSmartMode # "eis"
    THEN IF IsFinite(actualChiSq) THEN [res EXCEPT !.min = actualChiSq, !.minUnit = "ChiSq"] ELSE res
    ELSE res

\* The method names of the -method flag and the settings of -m.
MethodNames == Methods \cup {"lm", "gd"}
ConfigSmartModes == {"eis", "lm", ""}

\* What Solve returns: a fit, or the ERROR result of a failed inner solver.
SolveResults ==
    { [status |-> "OK", min |-> Float(1), minUnit |-> "ChiSq", nparams |-> NumElements],
      [status |-> "ERROR", min |-> PosInf, minUnit |-> "ChiSq", nparams |-> 0] }

\* The chi-square of the returned parameters on the request's data. The
\* inner solvers report that very value; eisSolve reports the chi-square
\* of the normalized data at the parameters of the normalized fit.
ActualChiSqs(name, res) ==
    IF SmartModeOf(name) = "eis" \/ ~IsFinite(res.min) THEN {Float(1), Float(2), NaN} ELSE {res.min}

RecalculateCalls ==
    UNION { { Call("Recalculate", <<name, mode, res, actual>>) : mode \in ConfigSmartModes, actual \in ActualChiSqs(name, res) } :
              name \in MethodNames, res \in SolveResults }

RecalculateReturn ==
    /\ call.fn = "Recalculate"
    /\ Return(Recalculate(call.arg[1], call.arg[2], call.arg[3], call.arg[4]))

\* sort.Float64s on frequencies (positive integers here): ascending order.
RECURSIVE Insert(_, _)
Insert(sorted, x) ==
    IF sorted = << >> THEN <<x>>
    ELSE IF x <= Head(sorted) THEN <<x>> \o sorted
    ELSE <<Head(sorted)>> \o Insert(Tail(sorted), x)

RECURSIVE SortFloat64s(_)
SortFloat64s(a) == IF a = << >> THEN << >> ELSE Insert(SortFloat64s(Tail(a)), Head(a))

\* minMax sorts the slice it is given, in place, and returns its ends.
minMax(a) ==
    IF Len(a) < 1 THEN [a |-> a, min |-> 0, max |-> 0]
    ELSE [a |-> SortFloat64s(a), min |-> SortFloat64s(a)[1], max |-> SortFloat64s(a)[Len(a)]]

\* findInitValues as far as freqs goes: each r of the code calls
\* minMax(freqs), and freqs is the solver's own Freqs slice.
RECURSIVE findInitValuesFreqs(_, _)
findInitValuesFreqs(code, freqs) ==
    IF code = << >> THEN freqs
    ELSE findInitValuesFreqs(Tail(code), IF Head(code) = "r" THEN minMax(freqs).a ELSE freqs)

\* Solve as far as s.Freqs goes: eisSolve and lmSolve call findInitValues
\* on a solver without InitValues; nothing else writes Freqs.
SolveFreqs(smartMode, code, initValues, freqs) ==
    IF smartMode \in {"eis", "lm"} /\ Len(initValues) = 0
    THEN findInitValuesFreqs(code, freqs)
    ELSE freqs

\* Frequency vectors of up to three points, in any order, on solvers fresh
\* from NewSolver (no InitValues) or given some.
FreqVectors == UNION { [1..n -> {1, 10, 100}] : n \in 1..3 }
SmartModes == {"eis", "lm", "gd", "lbfgs", "newton", ""}

SolveFreqsCalls ==
    { Call("SolveFreqs", <<mode, code, init, freqs>>) :
        mode \in SmartModes, code \in {Rcr, <<"c">>}, init \in {<< >>, <<"50.0">>}, freqs \in FreqVectors }

SolveFreqsReturn ==
    /\ call.fn = "SolveFreqs"
    /\ Return([Freqs |-> SolveFreqs(call.arg[1], call.arg[2], call.arg[3], call.arg[4])])

(***************************************************************************)
(* The buffer pool of the workers (processJob, extractImpedanceData).      *)
(* A slice a WorkResult carries is either an array of its own (alias 0,    *)
(* with the values) or the array of a BufferSet's field.                   *)
(***************************************************************************)
\* The impedance data of the jobs: one point, or two.
ImpDatas == { <<<<1, 10>>>>, <<<<2, 20>>, <<3, 30>>>> }

BufferJobs == 3

JobQueues == { [k \in 1..BufferJobs |-> [id |-> k, ImpData |-> d[k]]] : d \in [1..BufferJobs -> ImpDatas] }

RealOf(impData) == [i \in 1..Len(impData) |-> impData[i][1]]
ImagOf(impData) == [i \in 1..Len(impData) |-> impData[i][2]]

\* The result slice that shares the BufferSet's array.
AliasOf(id, field, values) == [alias |-> id, field |-> field, vals |-> << >>]

\* realCopy := make(...); copy(realCopy, buffers.Real)
CopyOf(id, field, values) == [alias |-> 0, field |-> field, vals |-> values]

\* What a slice holds now.
Contents(slice) == IF slice.alias = 0 THEN slice.vals ELSE bufferSets[slice.alias][slice.field]

\* case job := <-p.jobs, then bufferPool.Get() and the reset of the
\* buffers: a BufferSet out of the pool, or a new one.
PoolGet(w) ==
    /\ pjpc[w] = "select"
    /\ bufJobs # << >>
    /\ pjjob' = [pjjob EXCEPT ![w] = <<Head(bufJobs)>>]
    /\ bufJobs' = Tail(bufJobs)
    /\ \/ \E id \in bufferPool :
             /\ bufferPool' = bufferPool \ {id}
             /\ buffers' = [buffers EXCEPT ![w] = id]
             /\ bufferSets' = [bufferSets EXCEPT ![id] = [Real |-> << >>, Imag |-> << >>]]
       \/ /\ Len(bufferSets) < MaxBuffers
          /\ buffers' = [buffers EXCEPT ![w] = Len(bufferSets) + 1]
          /\ bufferSets' = Append(bufferSets, [Real |-> << >>, Imag |-> << >>])
          /\ UNCHANGED bufferPool
    /\ pjpc' = [pjpc EXCEPT ![w] = "process"]
    /\ UNCHANGED <<pipelineVars, call, ret, pjres, emitted>>

\* The processor runs, then extractImpedanceData fills the buffers.
ExtractImpedanceData(w) ==
    /\ pjpc[w] = "process"
    /\ bufferSets' = [bufferSets EXCEPT ![buffers[w]] =
                         [Real |-> RealOf(Head(pjjob[w]).ImpData), Imag |-> ImagOf(Head(pjjob[w]).ImpData)]]
    /\ pjpc' = [pjpc EXCEPT ![w] = "copy"]
    /\ UNCHANGED <<pipelineVars, call, ret, bufferPool, pjjob, buffers, pjres, bufJobs, emitted>>

\* The copies, and the WorkResult built on them. buffer records the
\* BufferSet the job was processed with.
CopyResult(w) ==
    /\ pjpc[w] = "copy"
    /\ pjres' = [pjres EXCEPT ![w] =
                    <<[job |-> Head(pjjob[w]), buffer |-> buffers[w],
                       RealImp |-> CopyOf(buffers[w], "Real", bufferSets[buffers[w]].Real),
                       ImagImp |-> CopyOf(buffers[w], "Imag", bufferSets[buffers[w]].Imag)]>>]
    /\ pjpc' = [pjpc EXCEPT ![w] = "return"]
    /\ UNCHANGED <<pipelineVars, call, ret, bufferPool, bufferSets, pjjob, buffers, bufJobs, emitted>>

\* processJob returns: defer p.bufferPool.Put(buffers).
PoolPut(w) ==
    /\ pjpc[w] = "return"
    /\ bufferPool' = bufferPool \cup {buffers[w]}
    /\ buffers' = [buffers EXCEPT ![w] = 0]
    /\ pjjob' = [pjjob EXCEPT ![w] = << >>]
    /\ pjpc' = [pjpc EXCEPT ![w] = "send"]
    /\ UNCHANGED <<pipelineVars, call, ret, bufferSets, pjres, bufJobs, emitted>>

\* p.results <- result
EmitResult(w) ==
    /\ pjpc[w] = "send"
    /\ emitted' = Append(emitted, Head(pjres[w]))
    /\ pjres' = [pjres EXCEPT ![w] = << >>]
    /\ pjpc' = [pjpc EXCEPT ![w] = "select"]
    /\ UNCHANGED <<pipelineVars, call, ret, bufferPool, bufferSets, pjjob, buffers, bufJobs>>

(***************************************************************************)
(* Specifications.                                                         *)
(***************************************************************************)
PoolStep ==
    \/ \E w \in WorkerIds : WorkerReceive(w)
    \/ \E w \in WorkerIds : WorkerProcess(w)
    \/ \E w \in WorkerIds : WorkerSend(w)
    \/ WebhookDispatch
    \/ SendWebhookReturn

ShutdownStep ==
    \/ PoolShutdown
    \/ \E w \in WorkerIds : WorkerExit(w)
    \/ WebhookExit
    \/ PoolShutdownReturn

\* The service while it runs: concurrent batch and single requests. The
\* batches are those the sending scripts produce, of up to MaxSpectra
\* spectra, and the requests the handler refuses.
ConcurrentBatchRequests ==
    RefusedBatchRequests \cup { OrderedBatch(n) : n \in 1..MaxSpectra }

Next ==
    \/ \E b \in Batches : BatchServeHTTP(b, ConcurrentBatchRequests)
    \/ \E b \in Batches : SubmitNext(b, TRUE)
    \/ \E b \in Batches : Collect(b)
    \/ \E b \in Batches : SaveTiming(b)
    \/ \E s \in Singles : EISServeHTTP(s, SingleRequests, TRUE)
    \/ \E s \in Singles : ProcessAsync(s)
    \/ PoolStep

Spec == Init /\ [][Next]_vars

\* The service being shut down: a batch request, single requests, and the
\* signal handler's Pool.Shutdown at any moment.
ShutdownNext ==
    \/ BatchServeHTTP(1, ConcurrentBatchRequests)
    \/ SubmitNext(1, TRUE)
    \/ Collect(1)
    \/ SaveTiming(1)
    \/ \E s \in Singles : EISServeHTTP(s, SingleRequests, TRUE)
    \/ \E s \in Singles : ProcessAsync(s)
    \/ PoolStep
    \/ ShutdownStep

ShutdownSpec == Init /\ [][ShutdownNext]_vars

\* One batch request, of any content, on a pool that is not shut down.
AloneNext ==
    \/ BatchServeHTTP(1, BatchRequests)
    \/ \E randOK \in BOOLEAN : SubmitNext(1, randOK)
    \/ Collect(1)
    \/ SaveTiming(1)
    \/ PoolStep

AloneSpec == AnyMethodInit /\ [][AloneNext]_vars

\* The goroutines of the pool are scheduled fairly: a step that stays
\* possible is eventually taken.
PoolFairness ==
    /\ \A w \in WorkerIds : WF_vars(WorkerReceive(w))
    /\ \A w \in WorkerIds : WF_vars(WorkerProcess(w))
    /\ \A w \in WorkerIds : WF_vars(WorkerSend(w))
    /\ WF_vars(WebhookDispatch)
    /\ WF_vars(SendWebhookReturn)

\* So is the goroutine of processBatchAsync.
OrchestratorFairness(b) ==
    /\ WF_vars(\E randOK \in BOOLEAN : SubmitNext(b, randOK))
    /\ WF_vars(Collect(b))
    /\ WF_vars(SaveTiming(b))

FairAloneSpec == AnyMethodInit /\ [][AloneNext]_vars /\ PoolFairness /\ OrchestratorFairness(1)

\* One batch of good data in order, of any size up to the first that the
\* pool cannot absorb without the orchestrator collecting (the jobs queue,
\* the results queue and the workers' hands all full, and one more), and
\* shutdown at any moment.
OverloadSpectra == JobsCap + ResultsCap + Workers + 1

OverloadBatchRequests == { OrderedBatch(n) : n \in 1..OverloadSpectra }

OverloadNext ==
    \/ BatchServeHTTP(1, OverloadBatchRequests)
    \/ SubmitNext(1, TRUE)
    \/ Collect(1)
    \/ SaveTiming(1)
    \/ PoolStep
    \/ ShutdownStep

ShutdownFairness ==
    /\ \A w \in WorkerIds : WF_vars(WorkerExit(w))
    /\ WF_vars(WebhookExit)
    /\ WF_vars(PoolShutdownReturn)

FairOverloadSpec ==
    Init /\ [][OverloadNext]_vars /\ PoolFairness /\ OrchestratorFairness(1) /\ ShutdownFairness

\* Library functions called on their own, on each input of a bounded set.
LibraryCalls == SendCalls \cup InnerSolveCalls \cup InitValuesCalls \cup EisSolveCalls \cup AllMethodsCalls \cup ChiSqCalls \cup CircuitImpedanceCalls \cup ElementCalls \cup DeliveryCalls \cup ScaleParamsCalls \cup ModifyParamsCalls \cup EisLoopCalls \cup RecalculateCalls \cup SolveFreqsCalls \cup CircuitImpedancePointsCalls

LibraryInit == InitWith({"nelder-mead"}) /\ call \in LibraryCalls /\ ret = << >> /\ BufferInitWith(<< >>)

LibraryNext ==
    \/ ClientSend
    \/ InnerSolve
    \/ SetInitValues
    \/ EisSolve
    \/ RunAllMethods
    \/ ChiSqReturn
    \/ CircuitImpedanceReturn
    \/ CalculatorReturn
    \/ calculateReturn
    \/ ClientSendPost
    \/ CmdSendWebhook
    \/ ScaleParamsReturn
    \/ ModifyParamsReturn
    \/ EisLoopReturn
    \/ RecalculateReturn
    \/ SolveFreqsReturn
    \/ CircuitImpedancePointsReturn

LibrarySpec == LibraryInit /\ [][LibraryNext]_vars

\* Two workers of one pool working through a queue of jobs.
BufferInit == InitWith({"nelder-mead"}) /\ call = NoCall /\ ret = << >> /\ \E q \in JobQueues : BufferInitWith(q)

BufferNext ==
    \E w \in BufferWorkerIds :
        \/ PoolGet(w)
        \/ ExtractImpedanceData(w)
        \/ CopyResult(w)
        \/ PoolPut(w)
        \/ EmitResult(w)

BufferSpec == BufferInit /\ [][BufferNext]_vars

(***************************************************************************)
(* Properties.                                                             *)
(***************************************************************************)
\* The two sequences hold the same values the same number of times.
SameMultiset(s, t) ==
    /\ Len(s) = Len(t)
    /\ \A i \in 1..Len(s) :
         Cardinality({j \in 1..Len(s) : s[j] = s[i]}) = Cardinality({j \in 1..Len(t) : t[j] = s[i]})

IterationsOf(seq) == [i \in 1..Len(seq) |-> seq[i].iteration]

\* The fields that say which job a job or a result is.
KeysOf(seq) == [i \in 1..Len(seq) |-> <<seq[i].id, seq[i].request_id, seq[i].batch_id, seq[i].iteration>>]

NumSpectra(b) == Len(breq[b].spectra)

CollectionEnded(b) == bpc[b] \in {"save", "open", "flush", "done"}

AllFitsSucceed(req) == \A k \in 1..Len(req.spectra) : req.spectra[k].data = GoodData

\* C1: a batch of N spectra whose fits all succeed, on a pool whose jobs and
\* results queues hold N items, is eventually finished with all N results
\* dequeued (resultsReceived = N), under fair scheduling.
C1_BatchEventuallyFinishes ==
    (/\ bpc[1] = "submit"
     /\ NumSpectra(1) <= JobsCap
     /\ NumSpectra(1) <= ResultsCap
     /\ AllFitsSucceed(breq[1]))
    ~> (bpc[1] = "done" /\ resultsReceived[1] = NumSpectra(1))

\* C2: for a batch processed alone, when the collection loop has ended the
\* results it dequeued carry the same multiset of iterations as the jobs it
\* submitted, and the same multiset of (id, request_id, batch_id, iteration):
\* one result per job, none lost, duplicated or mis-attributed.
C2_ResultsMatchSubmitted ==
    CollectionEnded(1) =>
        /\ SameMultiset(IterationsOf(received[1]), IterationsOf(submitted[1]))
        /\ SameMultiset(KeysOf(received[1]), KeysOf(submitted[1]))

\* A batch of two spectra with different iterations has finished.
C2_TwoResultsCollected ==
    /\ bpc[1] = "done"
    /\ Len(received[1]) = 2
    /\ received[1][1].iteration # received[1][2].iteration

\* C3: a batch of N spectra whose collection has ended has called
\* QueueWebhook exactly N times, once per dequeued result, with exactly the
\* iterations it submitted.
C3_WebhookEnqueuesMatchSubmitted ==
    \A b \in Batches :
        CollectionEnded(b) =>
            /\ Len(attempts[b]) = NumSpectra(b)
            /\ Len(attempts[b]) = Len(received[b])
            /\ SameMultiset(IterationsOf(attempts[b]), IterationsOf(submitted[b]))

Last(seq) == seq[Len(seq)]

\* What the overflow policy makes of the webhook queue on one call.
AppendedOrDropped(q, item) == IF Len(q) < 4 * Workers THEN Append(q, item) ELSE q

\* C4: a QueueWebhook call is part of the step that makes it, whatever the
\* fill of the queue (it never blocks); it appends the item when the queue
\* holds fewer than 4W items and otherwise leaves the queue as it was; a
\* SubmitJob call that returns has put its job at the back of the jobs
\* queue, which never exceeds its 2W slots.
C4_OverflowPolicy ==
    [][/\ \A b \in Batches :
            /\ (received'[b] # received[b] /\ crashed' = "none") => Len(attempts'[b]) = Len(attempts[b]) + 1
            /\ attempts'[b] # attempts[b] =>
                   webhookQueue' = AppendedOrDropped(webhookQueue, Last(attempts'[b]).webhook)
            /\ submitted'[b] # submitted[b] =>
                   /\ jobs' = Append(jobs, Last(submitted'[b]))
                   /\ Len(jobs') <= 2 * Workers
       /\ \A s \in Singles :
            sattempts'[s] # sattempts[s] =>
                webhookQueue' = AppendedOrDropped(webhookQueue, Last(sattempts'[s]))
      ]_vars

RECURSIVE SumLen(_, _)
SumLen(f, S) == IF S = {} THEN 0 ELSE LET x == CHOOSE y \in S : TRUE IN Len(f[x]) + SumLen(f, S \ {x})

\* The webhook queue is full and one more QueueWebhook call has been made
\* than it and the processor have taken: an item was dropped.
C4_WebhookDropped ==
    /\ Len(webhookQueue) = 4 * Workers
    /\ SumLen(attempts, Batches) + SumLen(sattempts, Singles) > Len(webhookQueue) + Len(dispatched)

HasRow(b) == \E i \in 1..Len(csv) : csv[i].batch = b

\* The result of the job has been dequeued by some collection loop.
Dequeued(job) ==
    \E b \in Batches : \E i \in 1..Len(received[b]) :
        /\ received[b][i].request_id = job.request_id
        /\ received[b][i].iteration = job.iteration

\* C5: a batch has at most one timing row, and has one only when the
\* results of all N jobs it submitted have been dequeued, N webhook enqueues
\* attempted and resultsReceived = N.
C5_TimingRowAfterAllResults ==
    \A b \in Batches :
        /\ Cardinality({i \in 1..Len(csv) : csv[i].batch = b}) <= 1
        /\ HasRow(b) =>
               /\ resultsReceived[b] = NumSpectra(b)
               /\ Len(attempts[b]) = NumSpectra(b)
               /\ \A j \in 1..Len(submitted[b]) : Dequeued(submitted[b][j])

\* C6: a request that was accepted (its asynchronous processing started) was
\* answered 202 with a non-empty batch_id (batch) or request_id (single).
C6_AcceptedHasNonEmptyId ==
    /\ \A b \in Batches :
           bpc[b] \notin {"new", "refused"} => (bresp[b].code = 202 /\ bresp[b].id # << >>)
    /\ \A s \in Singles :
           spc[s] \notin {"new", "refused"} => (sresp[s].code = 202 /\ sresp[s].id # << >>)

\* A POST whose body is not JSON, holds no spectrum, or holds a spectrum
\* without data or with different numbers of frequencies and impedance points.
FailsValidation(req) ==
    /\ req.method = "POST"
    /\ \/ ~req.json
       \/ Len(req.spectra) = 0
       \/ \E k \in 1..Len(req.spectra) :
              \/ req.spectra[k].data.nfreq = 0
              \/ req.spectra[k].data.nfreq # req.spectra[k].data.nimp

\* C7: a batch request that fails validation is answered 4xx, and no job is
\* submitted and no webhook enqueued for it.
C7_InvalidRequestRefused ==
    \A b \in Batches :
        (bpc[b] # "new" /\ FailsValidation(breq[b])) =>
            /\ bresp[b].code \in 400..499
            /\ submitted[b] = << >>
            /\ attempts[b] = << >>

\* C8: when a worker runs a job whose fit fails (the minimizer fails or the
\* data is invalid), the process is not ended by processJob, and the result
\* the worker goes on to send has success = FALSE.
C8_FailedFitIsReported ==
    [][\A w \in WorkerIds :
          (wpc[w] = "run" /\ Head(wjob[w]).data # GoodData) =>
              /\ crashed' # "processJob"
              /\ wpc'[w] = "send" => ~Head(wres'[w]).success
      ]_vars

\* C9: once the shutdown channel is closed, every worker and the webhook
\* processor eventually return and Pool.Shutdown returns, under fair
\* scheduling.
C9_ShutdownReturns == shutdown ~> (WaitGroupDone /\ shutpc = "returned")

\* C10: once the shutdown channel is closed, no worker dequeues a job.
C10_NoDequeueAfterShutdown ==
    [][shutdown => \A w \in WorkerIds : ~(wpc[w] = "select" /\ wpc'[w] = "run")]_vars

\* C11: when Pool.Shutdown has returned, every sendWebhook goroutine the
\* webhook processor started has returned: no dispatch is still in flight.
C11_InFlightDispatchesFinished == shutpc = "returned" => sent = Len(dispatched)

\* C12: from the moment the shutdown channel is closed, no batch or single
\* request is accepted and no job is submitted to the pool.
C12_NoNewWorkAfterShutdown ==
    [][shutdown =>
          /\ \A b \in Batches : ~(bpc[b] = "new" /\ bpc'[b] = "submit")
          /\ \A s \in Singles : ~(spc[s] = "new" /\ spc'[s] = "fit")
          /\ \A b \in Batches : submitted'[b] = submitted[b]
      ]_vars

\* The goroutines that are inside a fit: workers in processJob, and
\* processAsync goroutines in the handler's processor.
FitsOnWorkers == {w \in WorkerIds : wpc[w] = "run"}
FitsOffPool == {s \in Singles : spc[s] = "fit"}

\* C13: at every moment at most W fits are executing in the process, batch
\* and single requests together.
C13_AtMostWFits == Cardinality(FitsOnWorkers) + Cardinality(FitsOffPool) <= Workers

\* The POSTs made by the sendWebhook goroutines that have returned.
Posts == PostsOf(dispatched, sent)

\* C14: once the sendWebhook goroutines of the dispatched items (enqueued
\* and not dropped) have returned, each item has been POSTed with a payload
\* that carries its request id and its frequencies and impedances.
C14_DispatchedItemsPosted ==
    sent = Len(dispatched) =>
        \A i \in 1..Len(dispatched) :
            \E k \in 1..Len(Posts) :
                /\ Posts[k].id = dispatched[i].request_id
                /\ Posts[k].nfreq = dispatched[i].nfreq
                /\ Posts[k].nreal = dispatched[i].nreal
                /\ Posts[k].nimag = dispatched[i].nimag

\* C15: every item in the webhook queue has as many frequencies as real
\* and as imaginary impedance values.
C15_WebhookLengthsAgree ==
    \A i \in 1..Len(webhookQueue) :
        /\ webhookQueue[i].nfreq = webhookQueue[i].nreal
        /\ webhookQueue[i].nreal = webhookQueue[i].nimag

Returned_(fn) == call.fn = fn /\ ret # << >>

\* C16: every Client.Send emits its payload, and no number in the payload
\* is NaN or an infinity, whatever the item holds.
C16_PayloadFiniteAndEmitted ==
    Returned_("Send") =>
        /\ Len(ret[1].posted) = 1
        /\ \A k \in 1..Len(ret[1].posted) : Encodes(ret[1].posted[k])

\* C17: an inner solver whose minimizer returns an error or panics returns
\* (no panic leaves it) a Result with status ERROR, min +Inf and no params.
C17_InnerSolverFailureIsError ==
    (call.fn \in InnerSolvers /\ call.arg # "ok" /\ ret # << >>) =>
        /\ ~ret[1].panic
        /\ ret[1].status = "ERROR"
        /\ ret[1].min = "+Inf"
        /\ ret[1].nparams = 0

\* parameter_arity of a code: the number of parameters its elements take.
ParameterArity(code) == Len(GetElements(code))

\* C18: the parameter vector a fit on code C hands to the solver has length
\* parameter_arity(C), whether provided or generated (also by the fallback
\* for a code outside the table), or the call is rejected.
C18_VectorHasCircuitArity ==
    (call.fn = "SolverInitValues" /\ ret # << >>) =>
        \/ ret[1].rejected
        \/ Len(ret[1].InitValues) = ParameterArity(call.arg[1])

\* C19: on every exit of eisSolve, by return or by panic, the solver's
\* observed data (shared with the caller's impData) equals its value
\* before the call.
C19_ObservedRestored ==
    (call.fn = "eisSolve" /\ ret # << >>) => ret[1].Observed = call.arg[1]

\* The methods of an all-methods call whose minimizer converged, and the
\* lowest chi-square among them.
Converging(runs) == { i \in DOMAIN runs : runs[i].outcome = "ok" }

LowestMin(runs) ==
    CHOOSE m \in ChiSquares :
        /\ \E i \in Converging(runs) : runs[i].min = m
        /\ \A i \in Converging(runs) : runs[i].min >= m

\* C20: all-methods mode returns the result with the lowest finite min
\* among the methods that did not fail, and returns status ERROR with min
\* +Inf and no params exactly when all five failed.
C20_BestOfAllMethods ==
    (call.fn = "runAllOptimizationMethods" /\ ret # << >>) =>
        /\ ~ret[1].panic
        /\ IF Converging(call.arg) = {}
           THEN ret[1] = Result("ERROR", PosInf, 0)
           ELSE /\ ret[1].status # "ERROR"
                /\ ret[1].min = Float(LowestMin(call.arg))

\* The weighted squared residual of point i, and the sum over a set of
\* points.
WeightedResidual(O, C, w, i) ==
    IF w = "MODULUS" /\ Weight2(O[i]) # Float(0)
    THEN FloatDiv(Residual(O[i], C[i]), Weight2(O[i]))
    ELSE Residual(O[i], C[i])

RECURSIVE SumOver(_, _, _, _)
SumOver(O, C, w, points) ==
    IF points = {} THEN Float(0)
    ELSE LET i == CHOOSE j \in points : TRUE
         IN  FloatAdd(WeightedResidual(O, C, w, i), SumOver(O, C, w, points \ {i}))

\* C21: for sequences of equal length N >= 1, ChiSq returns the weighted
\* sum of squared residuals divided by N, and ChiSq(O, O, w) = 0 under both
\* weightings, also at points of modulus zero.
C21_ChiSqIdentity ==
    (call.fn = "ChiSq" /\ ret # << >> /\ Len(call.arg[1]) = Len(call.arg[2])) =>
        /\ ~ret[1].panic
        /\ ret[1].value = FloatDiv(SumOver(call.arg[1], call.arg[2], call.arg[3], DOMAIN call.arg[1]),
                                   Float(Len(call.arg[1])))
        /\ call.arg[1] = call.arg[2] => ret[1].value = Float(0)

C21_ZeroModulusMatch ==
    /\ call.fn = "ChiSq" /\ ret # << >>
    /\ call.arg[3] = "MODULUS"
    /\ call.arg[1] = call.arg[2]
    /\ Len(call.arg[1]) = MaxPoints
    /\ \E i \in DOMAIN call.arg[1] : Weight2(call.arg[1][i]) = Float(0)
    /\ ret[1].value = Float(0)

\* The parameter indices GetElements assigns to each element of a code:
\* consecutive, as many as the element has names.
RECURSIVE AssignedParams(_, _)
AssignedParams(code, offset) ==
    IF code = << >> THEN << >>
    ELSE LET n == Len(ElementsOf(Head(code)))
         IN  (IF n = 0 THEN << >> ELSE <<[j \in 1..n |-> offset + j - 1]>>)
                 \o AssignedParams(Tail(code), offset + n)

\* C22: the k-th element of a code reads the parameters GetElements
\* assigns to it; parentheses and unknown characters consume none, and
\* with one value per name no read falls outside values.
C22_ReadsFollowArity ==
    (call.fn = "CircuitImpedance" /\ ret # << >>) =>
        /\ ret[1].reads = AssignedParams(call.arg[1], 0)
        /\ ~ret[1].panic

\* C23: either calculator emits no entry for a qy tag, and for each qn tag
\* exactly one entry, named "Q" and computed from the qy and the qn
\* parameter.
C23_CpeEntries ==
    (call.fn \in {"CalculateElementImpedances", "calculateElementImpedances"} /\ ret # << >>) =>
        LET names == call.arg[3]
            out == ret[1]
        IN  \A i \in DOMAIN names :
                /\ names[i] = "qy" => ~\E k \in DOMAIN out : out[k].index = i
                /\ names[i] = "qn" =>
                      /\ Cardinality({k \in DOMAIN out : out[k].index = i}) = 1
                      /\ \A k \in DOMAIN out : out[k].index = i =>
                             out[k].name = "Q" /\ out[k].uses = {i - 1, i}

\* The number a string of decimal digits writes.
DigitValue(ch) == CHOOSE d \in 0..9 : Digit[d + 1] = ch

RECURSIVE DecimalValue(_)
DecimalValue(str) ==
    IF str = << >> THEN 0
    ELSE 10 * DecimalValue(SubSeq(str, 1, Len(str) - 1)) + DigitValue(str[Len(str)])

\* id is "<request_id>_iter_<iteration in three digits>" for the job.
IsIdOf(id, job) ==
    LET n == Len(job.request_id)
    IN  /\ Len(id) = n + 9
        /\ SubSeq(id, 1, n) = job.request_id
        /\ SubSeq(id, n + 1, n + 6) = <<"_", "i", "t", "e", "r", "_">>
        /\ DecimalValue(SubSeq(id, n + 7, n + 9)) = job.iteration

\* C24: the id of each webhook a batch builds is the request id and the
\* iteration of the job submitted for the spectrum whose result it was
\* built from, joined by "_iter_", the iteration in three digits.
C24_WebhookIdFromJob ==
    \A b \in Batches : \A k \in DOMAIN attempts[b] :
        \E i \in DOMAIN received[b] : \E j \in DOMAIN submitted[received[b][i].owner] :
            LET job == submitted[received[b][i].owner][j]
            IN  /\ job.request_id = received[b][i].request_id
                /\ job.iteration = received[b][i].iteration
                /\ attempts[b][k].iteration = job.iteration
                /\ IsIdOf(attempts[b][k].webhook.request_id, job)

C24_SecondIterationWebhook ==
    \E b \in Batches :
        /\ Len(attempts[b]) = 2
        /\ attempts[b][2].iteration = 1
        /\ attempts[b][2].webhook.request_id # WebhookRequestID(Unknown, 1)

\* The iterations of batch b are 0 .. N-1, each once.
UniqueIterations(b) ==
    /\ \A k \in 1..NumSpectra(b) : InRange(breq[b].spectra, breq[b].spectra[k].iteration)
    /\ \A k, l \in 1..NumSpectra(b) :
           breq[b].spectra[k].iteration = breq[b].spectra[l].iteration => k = l

\* The fit of the spectrum returns status OK.
FitIsOK(spectrum) ==
    /\ ~ProcessorFunc(spectrum.data, method).panic
    /\ ProcessorFunc(spectrum.data, method).status = "OK"

\* C25: the timing row of a batch (of unique iterations 0 .. N-1) counts N
\* spectra and, as successful, exactly the spectra of that batch whose fit
\* has status OK, each once; SuccessRate and the mean AvgChiSquare are
\* taken over that count.
C25_RowCountsOwnSuccesses ==
    \A i \in 1..Len(csv) :
        LET b == csv[i].batch
        IN  (b \in Batches /\ UniqueIterations(b)) =>
                /\ csv[i].numSpectra = NumSpectra(b)
                /\ csv[i].successful = Cardinality({k \in 1..NumSpectra(b) : FitIsOK(breq[b].spectra[k])})

\* C26: whatever the interleaving of batches finishing together, the timing
\* file starts with the header, holds it once, and holds one row for each
\* batch whose append has been done.
C26_HeaderOnceThenRows ==
    /\ csv # << >> => csv[1] = Header
    /\ Cardinality({i \in 1..Len(csv) : csv[i] = Header}) <= 1
    /\ \A b \in Batches :
          Cardinality({i \in 1..Len(csv) : csv[i].batch = b}) <= 1

\* C27: a delivery makes at most one POST, and when the POST times out, is
\* refused or is answered 4xx or 5xx the delivery ends with the error
\* reported (logged, or returned to the caller) and no further POST.
C27_OnePostAndErrorReported ==
    (call.fn \in {"SendPost", "cmdSendWebhook"} /\ ret # << >>) =>
        /\ ret[1].posts <= 1
        /\ call.arg # "2xx" => (ret[1].logged \/ ret[1].err)

\* How CircuitImpedance depends on the value of a tag: the impedance of
\* the element is proportional to it (r, l: R, j w L), inversely
\* proportional to it (c, w and the Y0 of q, o, t, g, f), or the value is
\* an exponent or rate inside the element's law (qn, ob, tb, gk, fk, fa).
\* Multiplying an element's impedance by s means multiplying the first
\* kind by s, dividing the second by s and keeping the third.
InOriginalScale(value, tag, scale) ==
    CASE tag \in {"r", "l"} -> FloatMul(value, scale)
      [] tag \in {"c", "w", "qy", "oy", "ty", "gy", "fy"} -> FloatDiv(value, scale)
      [] OTHER -> value

\* C28: the parameters scaleParams returns are those of the original data
\* scale for every circuit: CircuitImpedance of them is scale times the
\* CircuitImpedance of the parameters fitted on the normalized data.
C28_ParamsInOriginalScale ==
    (call.fn = "scaleParams" /\ ret # << >>) =>
        /\ ~ret[1].panic
        /\ \A i \in DOMAIN call.arg[1] :
              ret[1].params[i] = InOriginalScale(call.arg[1][i], call.arg[2][i], call.arg[3])

\* The orchestrator of batch b is blocked in SubmitJob on a full jobs queue.
BlockedInSubmit(b) == bpc[b] = "submit" /\ ~CanSubmitJob(jobs)

\* Worker w is blocked in its send on a full results queue.
BlockedInSend(w) == wpc[w] = "send" /\ ~CanSendResult(results)

\* C29: for a batch of any size, no reachable state has the orchestrator
\* blocked in SubmitJob on a full jobs queue while every worker is blocked
\* sending to a full results queue.
C29_NoSubmitSendDeadlock ==
    ~(/\ \E b \in Batches : BlockedInSubmit(b)
      /\ \A w \in WorkerIds : BlockedInSend(w))

\* C30: with several batches in flight on the one pool, every result a
\* batch's collection loop has dequeued is a result of that batch's own
\* jobs, and a batch whose collection has ended has dequeued exactly its own
\* N results.
C30_CollectsOwnResults ==
    \A b \in Batches :
        /\ \A i \in 1..Len(received[b]) : received[b][i].owner = b
        /\ CollectionEnded(b) => Len(received[b]) = NumSpectra(b)

\* C31: every result a batch's orchestrator has handled carries an iteration
\* inside the batch's spectrum_timings table (0 <= iteration < N), so
\* processResult never indexes outside it.
C31_IterationInsideTimings ==
    /\ crashed # "processResult"
    /\ \A b \in Batches : \A i \in 1..Len(received[b]) :
           InRange(spectrumTimings[b], received[b][i].iteration)

\* The value modifyParams works on at an index: the primary initial value
\* in place of a negative one.
Clamped(n, primary) == IF FloatLess(n, Float(0)) THEN primary ELSE n

\* C39: after modifyParams every parameter tagged qn lies in [0, 1] (1 for
\* a value above 1, 0 for a negative one), no parameter is negative, each
\* parameter tagged r, c or qy is 1.1 times its clamped value, and every
\* other parameter keeps its clamped value.
C39_ModifiedParams ==
    (call.fn = "modifyParams" /\ ret # << >>) =>
        /\ ~ret[1].panic
        /\ Len(ret[1].values) = Len(call.arg[1])
        /\ \A i \in 1..Len(call.arg[1]) :
              LET n == call.arg[1][i]
                  tag == call.arg[3][i]
                  out == ret[1].values[i]
              IN  /\ ~FloatLess(out, Float(0))
                  /\ tag = "qn" => ~FloatLess(out, Float(0)) /\ ~FloatGreater(out, Float(1))
                  /\ tag \in {"r", "c", "qy"} => out = FloatMul(Clamped(n, call.arg[2][i]), Factor)
                  /\ tag \notin {"r", "c", "qy", "qn"} => out = Clamped(n, call.arg[2][i])

\* A CPE whose admittance came out negative and whose exponent came out
\* above 1 has been modified.
C39_CpeClamped ==
    /\ call.fn = "modifyParams" /\ ret # << >>
    /\ call.arg[3] = <<"qy", "qn">>
    /\ call.arg[1] = <<Float(-1), Float(2)>>
    /\ call.arg[2][1] = Float(3)
    /\ ret[1].values = <<Frac(33, 10), Float(1)>>

\* The baseNMSolve runs of a returned eisSolve call, in order.
RunsPerformed == 1..ret[1].runs

\* C32: the params eisSolve returns are the rescaled vector of the
\* Nelder-Mead run that produced the returned min: modifyParams, preparing
\* the next retry, has not changed them.
C32_ParamsOfBestRun ==
    (call.fn = "eisSolveRuns" /\ ret # << >> /\ ~ret[1].panic) =>
        \E k \in RunsPerformed :
            /\ call.arg[1][k].min = ret[1].min
            /\ ret[1].params = scaleParams(call.arg[1][k].X, call.arg[5], call.arg[6]).params

\* a <= b on the chi-squares of runs.
FloatAtMost(a, b) == ~FloatGreater(a, b)

\* C35: eisSolve returns after at most max_iterations runs of the inner
\* Nelder-Mead solve, no run before the last is below min_target, a last
\* run short of max_iterations is below it, and the result it returns has
\* the minimum of the mins of the runs performed.
C35_LoopStopsAndKeepsMinimum ==
    (call.fn = "eisSolveRuns" /\ ret # << >>) =>
        /\ ~ret[1].panic
        /\ ret[1].runs <= call.arg[3]
        /\ \A k \in 1..(ret[1].runs - 1) : ~FloatLess(call.arg[1][k].min, call.arg[2])
        /\ ret[1].runs < call.arg[3] => FloatLess(call.arg[1][ret[1].runs].min, call.arg[2])
        /\ \E k \in RunsPerformed : call.arg[1][k].min = ret[1].min
        /\ \A k \in RunsPerformed : FloatAtMost(ret[1].min, call.arg[1][k].min)

\* C34: after a solve by a method other than EIS smart mode, a result that
\* is not an ERROR and has params reports the recomputed chi-square unless
\* that is not finite; a result of EIS smart mode keeps the min of the
\* solver.
C34_MinRecalculatedUnlessEis ==
    (call.fn = "Recalculate" /\ ret # << >>) =>
        LET res == call.arg[3]
            recomputed == /\ SmartModeOf(call.arg[1]) # "eis"
                          /\ res.status # "ERROR"
                          /\ res.nparams > 0
                          /\ IsFinite(call.arg[4])
        IN  ret[1].min = IF recomputed THEN call.arg[4] ELSE res.min

\* C33: a BufferSet is held by at most one worker and lies in the pool
\* only when no worker holds it, a worker outside processJob holds none,
\* and the real_imp and imag_imp of every result sent hold the data of its
\* job, whatever later jobs did with the BufferSet it was made with.
C33_BuffersExclusiveAndResultsStable ==
    /\ \A w \in BufferWorkerIds :
          /\ buffers[w] # 0 => buffers[w] \notin bufferPool
          /\ pjpc[w] \in {"select", "send"} => buffers[w] = 0
          /\ \A v \in BufferWorkerIds \ {w} : buffers[w] # 0 => buffers[w] # buffers[v]
    /\ \A i \in 1..Len(emitted) :
          /\ Contents(emitted[i].RealImp) = RealOf(emitted[i].job.ImpData)
          /\ Contents(emitted[i].ImagImp) = ImagOf(emitted[i].job.ImpData)

\* Two results have been sent whose jobs, of different data, were processed
\* with the same BufferSet.
C33_BufferReused ==
    \E i, j \in 1..Len(emitted) :
        /\ i < j
        /\ emitted[i].buffer = emitted[j].buffer
        /\ emitted[i].job.ImpData # emitted[j].job.ImpData

\* The spectrum of batch b that carries the iteration.
SpectrumOf(b, iteration) ==
    CHOOSE sp \in {breq[b].spectra[k] : k \in 1..NumSpectra(b)} : sp.iteration = iteration

\* C36: for a batch (processed alone) whose iterations are a permutation
\* of 0 .. N-1, the table the collection loop ends with holds at index i
\* the result of the spectrum with iteration i, whatever the order in which
\* the results arrived.
C36_TimingsIndexedByIteration ==
    (CollectionEnded(1) /\ UniqueIterations(1)) =>
        \A i \in 0..(NumSpectra(1) - 1) :
            /\ spectrumTimings[1][i + 1].written
            /\ spectrumTimings[1][i + 1].iteration = i
            /\ spectrumTimings[1][i + 1].success = FitIsOK(SpectrumOf(1, i))

\* A batch whose first spectrum has iteration 1 and fails and whose second
\* has iteration 0 and fits has been collected: the results arrived in the
\* order 1, 0.
C36_ArrivedOutOfOrder ==
    /\ CollectionEnded(1)
    /\ NumSpectra(1) = 2
    /\ IterationsOf(received[1]) = <<1, 0>>
    /\ ~received[1][1].success
    /\ received[1][2].success

\* C37: after Solve the solver's Freqs is the vector it was before the
\* call, element by element, so that Freqs[i] still goes with Observed[i];
\* also on a solver whose initial values findInitValues generates.
C37_FreqsUnchanged ==
    (call.fn = "SolveFreqs" /\ ret # << >>) => ret[1].Freqs = call.arg[4]

\* C38: for every code over the circuit language, balanced or not, and one
\* value for each of its parameters, CircuitImpedance returns without a
\* panic exactly one pair for each frequency.
C38_ImpedanceTotal ==
    (call.fn = "CircuitImpedancePoints" /\ ret # << >>) =>
        /\ ~ret[1].panic
        /\ ret[1].pairs = Len(call.arg[2])

====
